---- MODULE Spec2Model ----
(***************************************************************************)
(* Session state synchronisation and archival engine of agent-core:        *)
(* scripts/init_session.py, scripts/log_url.py, scripts/sync_environments  *)
(* .py and scripts/archive_session.py.                                      *)
(*                                                                         *)
(* The state is the file system the scripts work on: the local tier        *)
(* <cwd>/.agent/research of every workspace, and the global tier           *)
(* $AGENT_CORE (sessions/<id>/, sessions/index.md, memory/learnings.md).   *)
(* Every script invocation is one action; it runs to its end (a return or  *)
(* an uncaught exception) and leaves the files it wrote until then.        *)
(***************************************************************************)
EXTENDS Integers, Sequences, FiniteSets, TLC

VARIABLES
    now,        \* the wall clock, in seconds
    local,      \* workspace -> directory (file name -> content) of .agent/research
    gsessions,  \* session id -> directory of $AGENT_CORE/sessions/<id>
    gorder,     \* the global session directories, least recently modified first
    index,      \* $AGENT_CORE/sessions/index.md
    memory,     \* $AGENT_CORE/memory/learnings.md
    steps,      \* invocations so far
    trace,      \* the last invocation, where a specification records it
    probe       \* the document under test, where a specification tests one function

vars == <<now, local, gsessions, gorder, index, memory, steps, trace, probe>>

----------------------------------------------------------------------------
(* Bounds of the model *)

MaxOps == 4         \* invocations in one run that change the file system
MaxVisited == 3     \* entries of urls_visited given to extract_learnings
MaxFinding == 50    \* characters of a key finding given to update_session_index

Times == {0, 1}                            \* readings of the clock
WS == {"w1", "w2"}                         \* working directories
Topics == {<<"a", " ", "b">>, <<"x">>}      \* topics given to init, as characters
URLs == {"https://x", "https://y/p"}       \* URLs given to log-url

NoTime == -1        \* JSON null in a timestamp field

----------------------------------------------------------------------------
(* Files *)

Absent == [kind |-> "absent"]
Malformed == [kind |-> "malformed"]
JsonFile(doc) == [kind |-> "json", doc |-> doc]
TextFile(lines) == [kind |-> "text", lines |-> lines]
EmptyDir == <<>>

Exists(dir, name) == name \in DOMAIN dir
ReadFile(dir, name) == IF name \in DOMAIN dir THEN dir[name] ELSE Absent
WriteFile(dir, name, content) ==
    [n \in DOMAIN dir \cup {name} |-> IF n = name THEN content ELSE dir[n]]
Get(d, k, default) == IF k \in DOMAIN d THEN d[k] ELSE default

\* Fault: a copy that leaves the entries the destination already has.
CopyTree_new_only(src, dst) ==
    [n \in DOMAIN src \cup DOMAIN dst |-> IF n \in DOMAIN dst THEN dst[n] ELSE src[n]]

\* for item in src.iterdir(): copy2 / rmtree + copytree.  Every entry of src
\* replaces the entry of that name in dst; the other entries of dst stay.
CopyTree(src, dst) ==
    [n \in DOMAIN src \cup DOMAIN dst |-> IF n \in DOMAIN src THEN src[n] ELSE dst[n]]

RECURSIVE Join(_)
Join(cs) == IF cs = <<>> THEN "" ELSE Head(cs) \o Join(Tail(cs))

----------------------------------------------------------------------------
(* init_session.py: session identity *)

SlugLen == 20
SafeTopicLen == 30
AlnumChars == {"a", "b", "x", "A"}

Lower(c) == IF c = "A" THEN "a" ELSE c
SafeChar(c) == IF Lower(c) \in AlnumChars \/ Lower(c) = "-" THEN Lower(c) ELSE "-"
Prefix(s, n) == SubSeq(s, 1, IF Len(s) < n THEN Len(s) ELSE n)

RECURSIVE LStrip(_)
LStrip(cs) == IF cs # <<>> /\ Head(cs) = "-" THEN LStrip(Tail(cs)) ELSE cs
RECURSIVE RStrip(_)
RStrip(cs) ==
    IF cs # <<>> /\ cs[Len(cs)] = "-" THEN RStrip(SubSeq(cs, 1, Len(cs) - 1)) ELSE cs
Strip(cs) == RStrip(LStrip(cs))

Slug(topic, n) == Join(Strip(Prefix([i \in 1..Len(topic) |-> SafeChar(topic[i])], n)))

\* hashlib.md5(topic.encode()).hexdigest()[:6]: a digest of the topic's characters
\* alone; distinct for the topics of the model.
TopicHash(topic) == "md5:" \o Join(topic)

generate_session_id(topic, t) ==
    [safe |-> Slug(topic, SlugLen), ts |-> t, hash |-> TopicHash(topic)]

SessionLogName == "session_log.md"
ScratchpadName == "scratchpad.json"
SessionName == "session.json"
ArchiveName == "session_archive.md"
BreadcrumbName == ".last_session"
SourcesName(safe_topic) == safe_topic \o "_sources.csv"
ReportName(safe_topic) == safe_topic \o "_report.md"

Path(w, name) == [ws |-> w, name |-> name]

\* detect_environment(): the environment variables of the process
detect_environment == "cli"

create_session_log(session) ==
    TextFile(<< [tag |-> "title", session_id |-> session.session_id,
                 status |-> session.status],
                [tag |-> "text", s |-> "## URLs Visited"],
                [tag |-> "urlhead"],
                [tag |-> "sep"],
                [tag |-> "text", s |-> "## Key Findings"],
                [tag |-> "text", s |-> "## Checkpoints"],
                [tag |-> "chkhead"],
                [tag |-> "sep"],
                [tag |-> "text", s |-> "## Session Notes"] >>)

create_scratchpad(session) ==
    [session_id |-> session.session_id,
     topic |-> session.topic,
     workflow |-> session.workflow,
     environment |-> session.environment,
     started |-> session.started,
     viral_candidates |-> <<>>,
     groundbreaker_candidates |-> <<>>,
     arxiv_papers |-> <<>>,
     urls_visited |-> <<>>,
     urls_used |-> <<>>,
     urls_skipped |-> <<>>,
     findings |-> <<>>,
     checkpoints |-> <<>>,
     last_checkpoint |-> NoTime,
     last_updated |-> session.started]

CsvHeader == [tag |-> "csvhead"]

NewSession(w, topic, t) ==
    LET safe_topic == Slug(topic, SafeTopicLen)
        session_id == generate_session_id(topic, t)
    IN  [session_id |-> session_id,
         topic |-> topic,
         safe_topic |-> safe_topic,
         workflow |-> "research",
         environment |-> detect_environment,
         started |-> t,
         status |-> "active",
         paths |-> [local |-> w,
                    global |-> session_id,
                    session_log |-> Path(w, SessionLogName),
                    scratchpad |-> Path(w, ScratchpadName),
                    report |-> Path(w, ReportName(safe_topic)),
                    sources |-> Path(w, SourcesName(safe_topic))],
         stats |-> [urls_visited |-> 0, urls_used |-> 0, checkpoints |-> 0,
                    last_sync |-> NoTime, sync_direction |-> "none",
                    sync_env |-> "none"],
         archived_at |-> NoTime,
         resumed_at |-> NoTime,
         duration_minutes |-> NoTime]

----------------------------------------------------------------------------
(* The file system as one value, and the outcome of an invocation *)

Dir(gs, id) == IF id \in DOMAIN gs THEN gs[id] ELSE EmptyDir
PutDir(gs, id, dir) == [i \in DOMAIN gs \cup {id} |-> IF i = id THEN dir ELSE gs[i]]

\* A directory's modification time changes when an entry is created or removed in
\* it, not when a file in it is rewritten.
Touch(order, id) == Append(SelectSeq(order, LAMBDA x : x # id), id)
Touched(gs, order, id, dir) ==
    IF id \notin DOMAIN gs \/ DOMAIN gs[id] # DOMAIN dir THEN Touch(order, id) ELSE order

ReadPath(loc, p) == ReadFile(loc[p.ws], p.name)
WritePath(loc, p, content) == [loc EXCEPT ![p.ws] = WriteFile(@, p.name, content)]

Outcome(st, status) == [st |-> st, status |-> status]

----------------------------------------------------------------------------
(* init_session.py *)

init_session(S, w, topic, t) ==
    LET session == NewSession(w, topic, t)
        id == session.session_id
        ldir == WriteFile(
                  WriteFile(
                    WriteFile(
                      WriteFile(S.local[w], SessionLogName, create_session_log(session)),
                      ScratchpadName, JsonFile(create_scratchpad(session))),
                    SourcesName(session.safe_topic), TextFile(<<CsvHeader>>)),
                  SessionName, JsonFile(session))
        gdir == WriteFile(Dir(S.gs, id), SessionName, JsonFile(session))
    IN  Outcome([S EXCEPT !.local[w] = ldir,
                          !.gs = PutDir(S.gs, id, gdir),
                          !.gorder = Touched(S.gs, S.gorder, id, gdir)],
                "ok")

\* for file in global_dir.iterdir(): if file.is_file(): write_bytes(read_bytes())
CopyFiles(src, dst) == CopyTree(src, dst)

\* Fault: the resumed session document is saved in the global tier as well.
load_session_global(S, w, session_id, t) ==
    LET gdir == Dir(S.gs, session_id)
        meta == ReadFile(gdir, SessionName)
    IN  IF meta = Absent THEN Outcome(S, "fail")
        ELSE IF meta = Malformed THEN Outcome(S, "error")
        ELSE
          LET session == [meta.doc EXCEPT !.status = "resumed",
                                          !.resumed_at = t,
                                          !.paths.local = w]
              ldir == WriteFile(CopyFiles(gdir, S.local[w]), SessionName,
                                JsonFile(session))
          IN  Outcome([S EXCEPT !.local[w] = ldir,
                                !.gs = PutDir(S.gs, session_id,
                                              WriteFile(gdir, SessionName,
                                                        JsonFile(session)))], "ok")

load_session(S, w, session_id, t) ==
    LET gdir == Dir(S.gs, session_id)
        meta == ReadFile(gdir, SessionName)
    IN  IF meta = Absent THEN Outcome(S, "fail")
        ELSE IF meta = Malformed THEN Outcome(S, "error")
        ELSE
          LET session == [meta.doc EXCEPT !.status = "resumed",
                                          !.resumed_at = t,
                                          !.paths.local = w]
              ldir == WriteFile(CopyFiles(gdir, S.local[w]), SessionName,
                                JsonFile(session))
          IN  Outcome([S EXCEPT !.local[w] = ldir], "ok")

----------------------------------------------------------------------------
(* log_url.py *)

SecondsPerMinute == 60
SecondsPerDay == 86400

detect_source(url) == "web"
extract_name(url, source) == IF url = "https://y/p" THEN "p" ELSE "x"

relevance_to_stars(relevance) ==
    IF relevance >= 3 THEN "***"
    ELSE IF relevance = 2 THEN "**-"
    ELSE IF relevance = 1 THEN "*--"
    ELSE "---"

\* main(): the entry built from the command's arguments
LogEntry(url, used, skipped, relevance, t) ==
    [url |-> url,
     source |-> detect_source(url),
     name |-> extract_name(url, detect_source(url)),
     timestamp |-> t,
     time |-> t \div SecondsPerMinute,
     used |-> used,
     skipped |-> skipped,
     relevance |-> relevance,
     relevance_stars |-> relevance_to_stars(relevance),
     notes |-> "",
     filter |-> "",
     stars |-> NoTime]

ScratchpadDefaults ==
    [urls_visited |-> <<>>, urls_used |-> <<>>, urls_skipped |-> <<>>,
     viral_candidates |-> <<>>, groundbreaker_candidates |-> <<>>,
     arxiv_papers |-> <<>>, findings |-> <<>>, checkpoints |-> <<>>]

\* Fault: defaulting that resets every defaulted key, present or not.
ensure_scratchpad_keys_reset(scratchpad) ==
    [k \in DOMAIN scratchpad \cup DOMAIN ScratchpadDefaults |->
        IF k \in DOMAIN ScratchpadDefaults THEN ScratchpadDefaults[k] ELSE scratchpad[k]]

ensure_scratchpad_keys(scratchpad) ==
    [k \in DOMAIN scratchpad \cup DOMAIN ScratchpadDefaults |->
        IF k \in DOMAIN scratchpad THEN scratchpad[k] ELSE ScratchpadDefaults[k]]

Put(d, k, v) == [x \in DOMAIN d \cup {k} |-> IF x = k THEN v ELSE d[x]]

UsedMark(entry) == IF entry.used THEN "used" ELSE IF entry.skipped THEN "skipped" ELSE "none"

MarkdownRow(entry) ==
    [tag |-> "row", time |-> entry.time, source |-> entry.source, url |-> entry.url,
     mark |-> UsedMark(entry), stars |-> entry.relevance_stars, notes |-> entry.notes]

IsUrlSeparator(lines, i) == lines[i].tag = "sep" /\ i > 1 /\ lines[i - 1].tag = "urlhead"

\* Fault: the row is added below the rows of the table.
InsertRow_below(lines, row) ==
    LET hits == {i \in 1..Len(lines) : IsUrlSeparator(lines, i)}
    IN  IF hits = {} THEN lines
        ELSE LET i == CHOOSE j \in hits : \A k \in hits : j <= k
                 last == CHOOSE j \in i..Len(lines) :
                            /\ \A k \in (i + 1)..j : lines[k].tag = "row"
                            /\ j = Len(lines) \/ lines[j + 1].tag # "row"
             IN  SubSeq(lines, 1, last) \o <<row>> \o SubSeq(lines, last + 1, Len(lines))

InsertRow(lines, row) ==
    LET hits == {i \in 1..Len(lines) : IsUrlSeparator(lines, i)}
    IN  IF hits = {} THEN lines
        ELSE LET i == CHOOSE j \in hits : \A k \in hits : j <= k
             IN  SubSeq(lines, 1, i) \o <<row>> \o SubSeq(lines, i + 1, Len(lines))

log_to_markdown(loc, session, entry) ==
    LET p == session.paths.session_log
        f == ReadPath(loc, p)
    IN  IF f = Absent THEN loc
        ELSE WritePath(loc, p, TextFile(InsertRow(f.lines, MarkdownRow(entry))))

UrlEntry(entry) ==
    [url |-> entry.url, source |-> entry.source, name |-> entry.name,
     timestamp |-> entry.timestamp, relevance |-> entry.relevance, notes |-> entry.notes]

\* Fault: a writer that classifies a skipped entry without recording the visit.
apply_log_event_unvisited(scratchpad, entry) ==
    LET sp1 == IF entry.skipped /\ ~entry.used THEN scratchpad
               ELSE [scratchpad EXCEPT !.urls_visited = Append(@, UrlEntry(entry))]
        sp2 == IF entry.used THEN [sp1 EXCEPT !.urls_used = Append(@, entry.url)]
               ELSE IF entry.skipped
                    THEN [sp1 EXCEPT !.urls_skipped = Append(@, entry.url)]
                    ELSE sp1
    IN  Put(sp2, "last_updated", entry.timestamp)

apply_log_event(scratchpad, entry) ==
    LET sp1 == [scratchpad EXCEPT !.urls_visited = Append(@, UrlEntry(entry))]
        sp2 == IF entry.used THEN [sp1 EXCEPT !.urls_used = Append(@, entry.url)]
               ELSE IF entry.skipped
                    THEN [sp1 EXCEPT !.urls_skipped = Append(@, entry.url)]
                    ELSE sp1
    IN  Put(sp2, "last_updated", entry.timestamp)

\* scratchpad = json.loads(...); scratchpad = ensure_scratchpad_keys(scratchpad):
\* json.loads of a malformed document raises, and no caller catches it.
LoadScratchpad(f) ==
    IF f = Malformed THEN [raised |-> TRUE]
    ELSE [raised |-> FALSE, doc |-> ensure_scratchpad_keys(f.doc)]

log_to_scratchpad(loc, session, entry) ==
    LET p == session.paths.scratchpad
        f == ReadPath(loc, p)
        loaded == LoadScratchpad(f)
    IN  IF f = Absent THEN [loc |-> loc, raised |-> FALSE]
        ELSE IF loaded.raised THEN [loc |-> loc, raised |-> TRUE]
        ELSE [loc |-> WritePath(loc, p, JsonFile(apply_log_event(loaded.doc, entry))),
              raised |-> FALSE]

CsvRow(entry) ==
    [tag |-> "csvrow", name |-> entry.name, url |-> entry.url, source |-> entry.source,
     filter |-> entry.filter, stars |-> entry.stars,
     date |-> entry.timestamp \div SecondsPerDay, relevance |-> entry.relevance,
     used |-> IF entry.used THEN "yes" ELSE "no", notes |-> entry.notes]

log_to_csv(loc, session, entry) ==
    LET p == session.paths.sources
        f == ReadPath(loc, p)
    IN  IF f = Absent THEN loc
        ELSE WritePath(loc, p, TextFile(Append(f.lines, CsvRow(entry))))

log_url(S, w, entry) ==
    LET t == entry.timestamp
        sfile == ReadFile(S.local[w], SessionName)
    IN  IF sfile = Absent THEN Outcome(S, "fail")
        ELSE IF sfile = Malformed THEN Outcome(S, "error")
        ELSE
          LET session == sfile.doc
              loc1 == log_to_markdown(S.local, session, entry)
              r2 == log_to_scratchpad(loc1, session, entry)
              loc3 == log_to_csv(r2.loc, session, entry)
          IN  IF r2.raised
              THEN Outcome([S EXCEPT !.local = loc1], "error")
              ELSE Outcome([S EXCEPT !.local = loc3], "ok")

----------------------------------------------------------------------------
(* sync_environments.py *)

NoId == [safe |-> "", ts |-> NoTime, hash |-> ""]

\* get_current_session() of sync_environments.py and archive_session.py:
\* None when session.json is absent or does not parse
get_current_session(ldir) ==
    LET f == ReadFile(ldir, SessionName)
    IN  IF f = Absent \/ f = Malformed THEN Absent ELSE f

RECURSIVE ScanSessions(_, _, _, _)
ScanSessions(gs, order, i, limit) ==
    IF i = 0 \/ limit = 0 THEN <<>>
    ELSE LET f == ReadFile(gs[order[i]], SessionName)
         IN  IF f = Absent \/ f = Malformed
             THEN ScanSessions(gs, order, i - 1, limit)
             ELSE <<f.doc>> \o ScanSessions(gs, order, i - 1, limit - 1)

\* the session documents of sessions/*/session.json, most recently modified first
list_global_sessions(S, limit) == ScanSessions(S.gs, S.gorder, Len(S.gorder), limit)

\* Fault: a synchronisation that derives the session_id again, from the topic and
\* the time of the synchronisation.
Stamp_renamed(session, direction, t) ==
    [session EXCEPT !.session_id = generate_session_id(session.topic, t),
                    !.stats.last_sync = t,
                    !.stats.sync_direction = direction,
                    !.stats.sync_env = detect_environment]

\* Fault: a synchronisation that marks the session active again.
Stamp_reactivated(session, direction, t) ==
    [session EXCEPT !.status = "active",
                    !.stats.last_sync = t,
                    !.stats.sync_direction = direction,
                    !.stats.sync_env = detect_environment]

Stamp(session, direction, t) ==
    [session EXCEPT !.stats.last_sync = t,
                    !.stats.sync_direction = direction,
                    !.stats.sync_env = detect_environment]

\* Fault: a push that saves the stamped session document in the local tier alone.
push_session_local_only(S, w, t) ==
    LET sfile == get_current_session(S.local[w])
    IN  IF sfile = Absent THEN Outcome(S, "fail")
        ELSE
          LET id == sfile.doc.session_id
              session == Stamp(sfile.doc, "push", t)
              gdir == CopyTree(S.local[w], Dir(S.gs, id))
          IN  Outcome([S EXCEPT !.local[w] = WriteFile(@, SessionName, JsonFile(session)),
                                !.gs = PutDir(S.gs, id, gdir),
                                !.gorder = Touched(S.gs, S.gorder, id, gdir)],
                      "ok")

push_session(S, w, t) ==
    LET sfile == get_current_session(S.local[w])
    IN  IF sfile = Absent THEN Outcome(S, "fail")
        ELSE
          LET id == sfile.doc.session_id
              session == Stamp(sfile.doc, "push", t)
              gdir == WriteFile(CopyTree(S.local[w], Dir(S.gs, id)), SessionName,
                                JsonFile(session))
          IN  Outcome([S EXCEPT !.local[w] = WriteFile(@, SessionName, JsonFile(session)),
                                !.gs = PutDir(S.gs, id, gdir),
                                !.gorder = Touched(S.gs, S.gorder, id, gdir)],
                      "ok")

\* the session id a pull works on: the one given, else the one of the most
\* recently modified global session
PullTarget(S, session_id) ==
    LET sessions == list_global_sessions(S, 1)
    IN  IF session_id # NoId THEN session_id
        ELSE IF sessions # <<>> THEN sessions[1].session_id ELSE NoId

\* Fault: a pull that fetches the session document and no other file.
pull_session_doc_only(S, w, session_id, t) ==
    LET sid == PullTarget(S, session_id)
    IN  IF sid \notin DOMAIN S.gs THEN Outcome(S, "fail")
        ELSE
          LET gfile == ReadFile(S.gs[sid], SessionName)
              ldir == IF gfile = Absent THEN S.local[w]
                      ELSE WriteFile(S.local[w], SessionName, gfile)
              sfile == ReadFile(ldir, SessionName)
          IN  IF sfile = Absent
              THEN Outcome([S EXCEPT !.local[w] = ldir], "ok")
              ELSE IF sfile = Malformed
              THEN Outcome([S EXCEPT !.local[w] = ldir], "error")
              ELSE Outcome([S EXCEPT !.local[w] = WriteFile(ldir, SessionName,
                                                    JsonFile(Stamp(sfile.doc, "pull", t)))],
                           "ok")

\* Fault: a pull that writes the stamped session document back to the global tier.
pull_session_writeback(S, w, session_id, t) ==
    LET sid == PullTarget(S, session_id)
    IN  IF sid \notin DOMAIN S.gs THEN Outcome(S, "fail")
        ELSE
          LET ldir == CopyTree(S.gs[sid], S.local[w])
              sfile == ReadFile(ldir, SessionName)
          IN  IF sfile = Absent
              THEN Outcome([S EXCEPT !.local[w] = ldir], "ok")
              ELSE IF sfile = Malformed
              THEN Outcome([S EXCEPT !.local[w] = ldir], "error")
              ELSE LET stamped == JsonFile(Stamp(sfile.doc, "pull", t))
                   IN  Outcome([S EXCEPT !.local[w] = WriteFile(ldir, SessionName, stamped),
                                         !.gs[sid] = WriteFile(@, SessionName, stamped)],
                               "ok")

\* Fault: a pull that falls back on the most recent session when the id it was
\* given has no global directory.
pull_session_fallback(S, w, session_id, t) ==
    LET sessions == list_global_sessions(S, 1)
        sid == IF session_id \in DOMAIN S.gs THEN session_id
               ELSE IF sessions # <<>> THEN sessions[1].session_id ELSE NoId
    IN  IF sid \notin DOMAIN S.gs THEN Outcome(S, "fail")
        ELSE
          LET ldir == CopyTree(S.gs[sid], S.local[w])
              sfile == ReadFile(ldir, SessionName)
          IN  IF sfile = Absent
              THEN Outcome([S EXCEPT !.local[w] = ldir], "ok")
              ELSE IF sfile = Malformed
              THEN Outcome([S EXCEPT !.local[w] = ldir], "error")
              ELSE Outcome([S EXCEPT !.local[w] = WriteFile(ldir, SessionName,
                                                    JsonFile(Stamp(sfile.doc, "pull", t)))],
                           "ok")

pull_session(S, w, session_id, t) ==
    LET sid == PullTarget(S, session_id)
    IN  IF sid \notin DOMAIN S.gs THEN Outcome(S, "fail")
        ELSE
          LET ldir == CopyTree(S.gs[sid], S.local[w])
              sfile == ReadFile(ldir, SessionName)
          IN  IF sfile = Absent
              THEN Outcome([S EXCEPT !.local[w] = ldir], "ok")
              ELSE IF sfile = Malformed
              THEN Outcome([S EXCEPT !.local[w] = ldir], "error")
              ELSE Outcome([S EXCEPT !.local[w] = WriteFile(ldir, SessionName,
                                                    JsonFile(Stamp(sfile.doc, "pull", t)))],
                           "ok")

----------------------------------------------------------------------------
(* archive_session.py *)

\* the document of a scratchpad file, {} when it is absent or does not parse
ParseScratchpadFile(f) == IF f = Absent \/ f = Malformed THEN <<>> ELSE f.doc

parse_scratchpad(loc, session) == ParseScratchpadFile(ReadPath(loc, session.paths.scratchpad))

count_urls(scratchpad) ==
    [total |-> Len(Get(scratchpad, "urls_visited", <<>>)),
     used |-> Len(Get(scratchpad, "urls_used", <<>>)),
     skipped |-> Len(Get(scratchpad, "urls_skipped", <<>>))]

Learning(type, name, url, insight) ==
    [type |-> type, name |-> name, url |-> url, insight |-> insight]

ToolLearning(item) ==
    Learning("tool", Get(item, "name", "Unknown"), Get(item, "url", ""),
             "High-adoption: " \o Get(item, "why", Get(item, "notes", "well-maintained")))

InnovationLearning(item) ==
    Learning("innovation", Get(item, "name", "Unknown"), Get(item, "url", ""),
             "Novel: " \o Get(item, "novel", Get(item, "why", Get(item, "notes", "emerging"))))

PaperLearning(item) ==
    Learning("paper", Get(item, "title", Get(item, "name", "Unknown")), Get(item, "url", ""),
             Get(item, "insight", Get(item, "notes", "Research finding")))

ResourceLearning(item) ==
    Learning("resource", Get(item, "name", Get(item, "url", "Unknown")), Get(item, "url", ""),
             Get(item, "notes", "High relevance resource"))

\* Fault: a URL is looked up among the resource Learnings alone.
RECURSIVE Resources_among_resources(_, _)
Resources_among_resources(items, learnings) ==
    IF items = <<>> THEN learnings
    ELSE LET item == Head(items)
             known == {learnings[i].url : i \in {j \in 1..Len(learnings) :
                                                   learnings[j].type = "resource"}}
         IN  IF Get(item, "relevance", 0) >= 3 /\ Get(item, "url", "None") \notin known
             THEN Resources_among_resources(Tail(items),
                                            Append(learnings, ResourceLearning(item)))
             ELSE Resources_among_resources(Tail(items), learnings)

RECURSIVE Resources(_, _)
Resources(items, learnings) ==
    IF items = <<>> THEN learnings
    ELSE LET item == Head(items)
             known == {learnings[i].url : i \in 1..Len(learnings)}
         IN  IF Get(item, "relevance", 0) >= 3 /\ Get(item, "url", "None") \notin known
             THEN Resources(Tail(items), Append(learnings, ResourceLearning(item)))
             ELSE Resources(Tail(items), learnings)

extract_learnings(scratchpad) ==
    LET viral == Get(scratchpad, "viral_candidates", <<>>)
        ground == Get(scratchpad, "groundbreaker_candidates", <<>>)
        papers == Get(scratchpad, "arxiv_papers", <<>>)
    IN  Resources(Get(scratchpad, "urls_visited", <<>>),
                  [i \in 1..Len(viral) |-> ToolLearning(viral[i])]
                  \o [i \in 1..Len(ground) |-> InnovationLearning(ground[i])]
                  \o [i \in 1..Len(papers) |-> PaperLearning(papers[i])])

MemoryHeader == [tag |-> "memhead"]

\* Fault: the document is written anew with the section of this archive.
update_learnings_memory_rewritten(mem, session, learnings, t) ==
    IF learnings = <<>> THEN mem
    ELSE TextFile(<<MemoryHeader, [tag |-> "section",
                                   date |-> t \div SecondsPerDay,
                                   topic |-> session.topic,
                                   session_id |-> session.session_id,
                                   learnings |-> learnings]>>)

update_learnings_memory(mem, session, learnings, t) ==
    IF learnings = <<>> THEN mem
    ELSE LET lines == IF mem = Absent THEN <<MemoryHeader>> ELSE mem.lines
         IN  TextFile(Append(lines, [tag |-> "section",
                                     date |-> t \div SecondsPerDay,
                                     topic |-> session.topic,
                                     session_id |-> session.session_id,
                                     learnings |-> learnings]))

KeyFindingLimit == 40
KeyFindingKeep == 37

\* Fault: the finding is cut at the limit and the ellipsis added to it.
TruncateKeyFinding_at_limit(key_finding) ==
    IF Len(key_finding) > KeyFindingLimit
    THEN SubSeq(key_finding, 1, KeyFindingLimit) \o "..."
    ELSE key_finding

TruncateKeyFinding(key_finding) ==
    IF Len(key_finding) > KeyFindingLimit
    THEN SubSeq(key_finding, 1, KeyFindingKeep) \o "..."
    ELSE key_finding

IndexHeader == [tag |-> "indexhead"]

IndexIdLen == 25
IndexTopicLen == 20
TimestampLen == 15
HashLen == 6

\* session['session_id'][:25] of "<slug>-<YYYYmmdd-HHMMSS>-<hash>": the characters
\* of the hash, then of the timestamp, that do not fit are cut
IndexId(id) ==
    LET room == IndexIdLen - (Len(id.safe) + 1 + TimestampLen + 1)
    IN  IF room >= HashLen THEN id
        ELSE IF room > 0 THEN [id EXCEPT !.hash = [of |-> id.hash, chars |-> room]]
        ELSE [safe |-> id.safe,
              ts |-> [of |-> id.ts, chars |-> room + 1 + TimestampLen]]

\* the index written anew with the row of this archive alone
update_session_index_rewritten(idx, session, duration, url_stats, key_finding, t) ==
    TextFile(<<IndexHeader,
               [tag |-> "indexrow",
                date |-> t \div SecondsPerDay,
                session_id |-> IndexId(session.session_id),
                topic |-> Prefix(session.topic, IndexTopicLen),
                workflow |-> session.workflow,
                duration |-> duration,
                used |-> url_stats.used,
                total |-> url_stats.total,
                key_finding |-> TruncateKeyFinding(key_finding)]>>)

update_session_index(idx, session, duration, url_stats, key_finding, t) ==
    LET lines == IF idx = Absent THEN <<IndexHeader>> ELSE idx.lines
    IN  TextFile(Append(lines, [tag |-> "indexrow",
                                date |-> t \div SecondsPerDay,
                                session_id |-> IndexId(session.session_id),
                                topic |-> Prefix(session.topic, IndexTopicLen),
                                workflow |-> session.workflow,
                                duration |-> duration,
                                used |-> url_stats.used,
                                total |-> url_stats.total,
                                key_finding |-> TruncateKeyFinding(key_finding)]))

KeyFinding(scratchpad, url_stats) ==
    IF Get(scratchpad, "viral_candidates", <<>>) # <<>>
    THEN Get(scratchpad.viral_candidates[1], "name", "See report")
    ELSE IF Get(scratchpad, "urls_used", <<>>) # <<>>
    THEN ToString(url_stats.used) \o " URLs used"
    ELSE "See report"

generate_archive_report(session, scratchpad, url_stats, duration, t) ==
    TextFile(<< [tag |-> "report",
                 session_id |-> session.session_id,
                 started |-> session.started,
                 archived |-> t,
                 duration |-> duration,
                 total |-> url_stats.total,
                 used |-> url_stats.used,
                 skipped |-> url_stats.skipped,
                 urls_used |-> Get(scratchpad, "urls_used", <<>>),
                 urls_visited |-> Get(scratchpad, "urls_visited", <<>>)] >>)

Breadcrumb(session_id) == [kind |-> "breadcrumb", session_id |-> session_id]

\* Fault: a clean-up that removes the files the archive knows of and leaves the
\* other entries of the directory.
clear_local_known(ldir, id) ==
    LET known == {SessionName, SessionLogName, ScratchpadName, ArchiveName,
                  SourcesName(id.safe), ReportName(id.safe)}
        kept == [n \in DOMAIN ldir \ known |-> ldir[n]]
    IN  WriteFile(kept, BreadcrumbName, Breadcrumb(id))

\* Fault: a clean-up that leaves the session document.
clear_local_session_left(ldir, id) ==
    WriteFile([n \in DOMAIN ldir \cap {SessionName} |-> ldir[n]],
              BreadcrumbName, Breadcrumb(id))

\* "Clean local workspace": every entry of the directory is removed, the directory
\* stays, and the breadcrumb is written.
clear_local(ldir, id) == WriteFile(EmptyDir, BreadcrumbName, Breadcrumb(id))

archive_session(S, w, extract_learnings_flag, keep_local, t) ==
    LET sfile == get_current_session(S.local[w])
    IN  IF sfile = Absent THEN Outcome(S, "fail")
        ELSE
          LET session0 == sfile.doc
              id == session0.session_id
              scratchpad == parse_scratchpad(S.local, session0)
              url_stats == count_urls(scratchpad)
              duration == t - session0.started
              learnings == IF extract_learnings_flag THEN extract_learnings(scratchpad)
                           ELSE <<>>
              key_finding == KeyFinding(scratchpad, url_stats)
              session == [session0 EXCEPT !.status = "archived",
                                          !.archived_at = t,
                                          !.duration_minutes = duration,
                                          !.stats.urls_visited = url_stats.total,
                                          !.stats.urls_used = url_stats.used]
              ldir == WriteFile(
                        WriteFile(S.local[w], ArchiveName,
                                  generate_archive_report(session, scratchpad, url_stats,
                                                          duration, t)),
                        SessionName, JsonFile(session))
              gdir == CopyTree(ldir, Dir(S.gs, id))
          IN  Outcome([S EXCEPT !.memory = update_learnings_memory(@, session0, learnings, t),
                                !.local[w] = IF keep_local THEN ldir
                                             ELSE clear_local(ldir, id),
                                !.gs = PutDir(S.gs, id, gdir),
                                !.gorder = Touched(S.gs, S.gorder, id, gdir),
                                !.index = update_session_index(@, session, duration,
                                                               url_stats, key_finding, t)],
                      "ok")

----------------------------------------------------------------------------
(* The system: every invocation of a script is one step *)

S == [local |-> local, gs |-> gsessions, gorder |-> gorder,
      index |-> index, memory |-> memory]

NoTrace == [op |-> "none"]
NoProbe == [stage |-> "none"]

\* The effect of an invocation on the file system.  steps counts the invocations
\* that changed it.  rec: the specification records the invocation in trace
\* ("all") or not ("none").
Commit(out, rec, t) ==
    /\ steps < MaxOps
    /\ steps' = IF out.st = S THEN steps ELSE steps + 1
    /\ local' = out.st.local
    /\ gsessions' = out.st.gs
    /\ gorder' = out.st.gorder
    /\ index' = out.st.index
    /\ memory' = out.st.memory
    /\ trace' = IF rec = "all" THEN t ELSE trace
    /\ UNCHANGED <<now, probe>>

FileSystemInit ==
    /\ now = 0
    /\ local = [w \in WS |-> EmptyDir]
    /\ gsessions = <<>>
    /\ gorder = <<>>
    /\ index = Absent
    /\ memory = Absent
    /\ steps = 0
    /\ trace = NoTrace

Init == FileSystemInit /\ probe = NoProbe

\* the inputs of the model
IdInputs == {generate_session_id(topic, t) : topic \in Topics, t \in Times}
LogInputs ==
    {[url |-> "https://x", relevance |-> 3, used |-> TRUE, skipped |-> FALSE],
     [url |-> "https://x", relevance |-> 3, used |-> FALSE, skipped |-> TRUE],
     [url |-> "https://x", relevance |-> 3, used |-> TRUE, skipped |-> TRUE],
     [url |-> "https://y/p", relevance |-> 2, used |-> FALSE, skipped |-> FALSE]}
AllLogInputs ==
    {[url |-> u, relevance |-> IF u = "https://x" THEN 3 ELSE 2, used |-> a, skipped |-> b] :
        u \in URLs, a \in BOOLEAN, b \in BOOLEAN}

Rows(f, tag) ==
    IF f = Absent THEN 0 ELSE Cardinality({i \in 1..Len(f.lines) : f.lines[i].tag = tag})

Parsed(f) == f # Absent /\ f # Malformed

\* The workspaces are interchangeable and the first invocation that changes an
\* empty file system is an init: it is taken to run in w1.
FirstIn(w) == gsessions = <<>> => w = "w1"

Traced(op, w, out) == [op |-> op, ws |-> w, status |-> out.status]

InitSession(w, rec) ==
    \E topic \in Topics :
        /\ FirstIn(w)
        /\ LET out == init_session(S, w, topic, now)
           IN  Commit(out, rec, Traced("init", w, out))

ContinueSession(w, rec) ==
    \E id \in IdInputs :
        /\ LET out == load_session(S, w, id, now)
           IN  Commit(out, rec, Traced("continue", w, out))

LogUrl(w, rec, inputs) ==
    \E in \in inputs :
        /\ LET entry == LogEntry(in.url, in.used, in.skipped, in.relevance, now)
               out == log_url(S, w, entry)
           IN  Commit(out, rec, [op |-> "log", ws |-> w, status |-> out.status,
                                 entry |-> entry])

Push(w, rec) ==
    /\ LET out == push_session(S, w, now)
       IN  Commit(out, rec, Traced("push", w, out))

Pull(w, rec) ==
    \E id \in IdInputs \cup {NoId} :
        /\ LET out == pull_session(S, w, id, now)
           IN  Commit(out, rec, Traced("pull", w, out))

Archive(w, rec) ==
    \E extract \in BOOLEAN, keep_local \in BOOLEAN :
        /\ LET out == archive_session(S, w, extract, keep_local, now)
           IN  Commit(out, rec, [op |-> "archive", ws |-> w, status |-> out.status,
                                 extract |-> extract, keep_local |-> keep_local,
                                 before |-> S])

\* A structured document of the local tier is left unparsable (a writer cut short,
\* an edit by hand): what the JSONDecodeError handlers of the scripts are for.
Damage(w) ==
    \E name \in {SessionName, ScratchpadName} :
        /\ Parsed(ReadFile(local[w], name))
        /\ steps < MaxOps
        /\ steps' = steps + 1
        /\ local' = [local EXCEPT ![w] = WriteFile(@, name, Malformed)]
        /\ trace' = [op |-> "damage", ws |-> w, status |-> "none"]
        /\ UNCHANGED <<now, gsessions, gorder, index, memory, probe>>

DamageGlobal ==
    \E id \in DOMAIN gsessions :
        /\ Parsed(ReadFile(gsessions[id], SessionName))
        /\ steps < MaxOps
        /\ steps' = steps + 1
        /\ gsessions' = [gsessions EXCEPT ![id] = WriteFile(@, SessionName, Malformed)]
        /\ trace' = [op |-> "damage", ws |-> "global", status |-> "none"]
        /\ UNCHANGED <<now, local, gorder, index, memory, probe>>

\* datetime.now(): the clock moves on between two invocations.  Time is counted
\* from the first invocation that changes the file system.
Tick ==
    /\ steps > 0
    /\ now + 1 \in Times
    /\ now' = now + 1
    /\ UNCHANGED <<local, gsessions, gorder, index, memory, steps, trace, probe>>

\* Every operation in every workspace
Next ==
    \/ Tick
    \/ \E w \in WS :
        \/ InitSession(w, "none")
        \/ ContinueSession(w, "none")
        \/ LogUrl(w, "none", LogInputs)
        \/ Push(w, "none")
        \/ Pull(w, "none")
        \/ Archive(w, "none")

Spec == Init /\ [][Next]_vars

\* init, log-url and push alone, every invocation recorded
NextLog ==
    \/ Tick
    \/ \E w \in WS :
        \/ InitSession(w, "all")
        \/ LogUrl(w, "all", AllLogInputs)
        \/ Push(w, "all")

SpecLog == Init /\ [][NextLog]_vars

\* One workspace whose documents can be left unparsable, every invocation recorded
NextDamage ==
    \/ Tick
    \/ InitSession("w1", "all")
    \/ ContinueSession("w1", "all")
    \/ LogUrl("w1", "all", LogInputs)
    \/ Push("w1", "all")
    \/ Pull("w1", "all")
    \/ Archive("w1", "all")
    \/ Damage("w1")
    \/ DamageGlobal

SpecDamage == Init /\ [][NextDamage]_vars

----------------------------------------------------------------------------
(* Schema defaulting on its own: a stored scratchpad document with any subset of
   its keys is loaded, by the log writer and by the archive pipeline *)

MaxDefault == 2     \* times a loaded document is defaulted

IdentityKeys == {"session_id", "topic", "workflow", "environment", "started"}
DefinedKeys ==
    IdentityKeys \cup DOMAIN ScratchpadDefaults \cup {"last_checkpoint", "last_updated"}
ProbeKeys ==
    DOMAIN ScratchpadDefaults \cup {"last_checkpoint", "last_updated", "session_id", "x_future"}

StoredValue(k) ==
    IF k \in DOMAIN ScratchpadDefaults THEN <<k>>
    ELSE IF k \in {"last_checkpoint", "last_updated", "started"} THEN 0
    ELSE IF k = "session_id" THEN generate_session_id(<<"x">>, 0)
    ELSE "v"

StoredDoc(K) ==
    [k \in K \cup (IF "session_id" \in K THEN IdentityKeys ELSE {}) |-> StoredValue(k)]

StoredFiles == {JsonFile(StoredDoc(K)) : K \in SUBSET ProbeKeys} \cup {Malformed}

InitSchema ==
    /\ FileSystemInit
    /\ probe \in {[stage |-> "stored", file |-> f] : f \in StoredFiles}

LoadForLog ==
    /\ probe.stage = "stored"
    /\ LET r == LoadScratchpad(probe.file)
       IN  probe' = IF r.raised
                    THEN [stage |-> "raised", by |-> "log", file |-> probe.file]
                    ELSE [stage |-> "loaded", by |-> "log", file |-> probe.file,
                          doc |-> r.doc, times |-> 1]
    /\ UNCHANGED <<now, local, gsessions, gorder, index, memory, steps, trace>>

LoadForArchive ==
    /\ probe.stage = "stored"
    /\ probe' = [stage |-> "loaded", by |-> "archive", file |-> probe.file,
                 doc |-> ParseScratchpadFile(probe.file), times |-> 0]
    /\ UNCHANGED <<now, local, gsessions, gorder, index, memory, steps, trace>>

DefaultAgain ==
    /\ probe.stage = "loaded"
    /\ probe.by = "log"
    /\ probe.times < MaxDefault
    /\ probe' = [probe EXCEPT !.doc = ensure_scratchpad_keys(@), !.times = @ + 1]
    /\ UNCHANGED <<now, local, gsessions, gorder, index, memory, steps, trace>>

NextSchema == LoadForLog \/ LoadForArchive \/ DefaultAgain

SpecSchema == InitSchema /\ [][NextSchema]_vars

----------------------------------------------------------------------------
(* Learning extraction on its own: extract_learnings applied to a scratchpad with
   candidates of each kind and a list of visited URLs *)

SeqsUpTo(set, n) == UNION {[1..k -> set] : k \in 0..n}

ViralInputs ==
    {<<>>,
     <<[name |-> "toolX", url |-> "https://x", why |-> "fast"]>>,
     <<[name |-> "toolY", url |-> "https://y/p"],
       [name |-> "toolX", url |-> "https://x", why |-> "fast"]>>}
GroundbreakerInputs == {<<>>, <<[name |-> "ideaX", url |-> "https://x", novel |-> "new"]>>}
PaperInputs == {<<>>, <<[title |-> "paperP"]>>}
VisitedInputs ==
    {[name |-> extract_name(u, "web"), url |-> u, relevance |-> r, notes |-> ""] :
        u \in URLs, r \in {2, 3}}
    \cup {[name |-> "again", url |-> "https://y/p", relevance |-> 3, notes |-> "seen"]}

InitLearn ==
    /\ FileSystemInit
    /\ \E viral \in ViralInputs, ground \in GroundbreakerInputs, papers \in PaperInputs,
          visited \in SeqsUpTo(VisitedInputs, MaxVisited) :
        probe = [stage |-> "scratchpad",
                 doc |-> [viral_candidates |-> viral,
                          groundbreaker_candidates |-> ground,
                          arxiv_papers |-> papers,
                          urls_visited |-> visited]]

ExtractLearnings ==
    /\ probe.stage = "scratchpad"
    /\ probe' = [stage |-> "learned", doc |-> probe.doc,
                 learnings |-> extract_learnings(probe.doc)]
    /\ UNCHANGED <<now, local, gsessions, gorder, index, memory, steps, trace>>

NextLearn == ExtractLearnings

SpecLearn == InitLearn /\ [][NextLearn]_vars

----------------------------------------------------------------------------
(* The insight of a Learning on its own: extract_learnings applied to candidates
   whose fields are absent, empty or filled *)

\* a record with the fixed fields and, of the optional ones, those that are given
\* a value: "" for a field that is present and empty
NoField == "<absent>"
WithFields(fixed, given) ==
    LET keys == DOMAIN fixed \cup {k \in DOMAIN given : given[k] # NoField}
    IN  [k \in keys |-> IF k \in DOMAIN fixed THEN fixed[k] ELSE given[k]]

FieldInputs(text) == {NoField, "", text}

ViralFields ==
    {WithFields([name |-> "toolX", url |-> "https://x"], [why |-> w, notes |-> n]) :
        w \in FieldInputs("fast"), n \in FieldInputs("solid")}
GroundbreakerFields ==
    {WithFields([name |-> "ideaX", url |-> "https://i"],
                [novel |-> v, why |-> w, notes |-> n]) :
        v \in FieldInputs("new"), w \in FieldInputs("fast"), n \in FieldInputs("solid")}
PaperFields ==
    {WithFields([title |-> "paperP", url |-> "https://p"], [insight |-> i, notes |-> n]) :
        i \in FieldInputs("proof"), n \in FieldInputs("solid")}
VisitedFields ==
    {WithFields([name |-> "y", url |-> "https://y/p", relevance |-> 3], [notes |-> n]) :
        n \in FieldInputs("seen")}

AtMostOne(set) == {<<>>} \cup {<<item>> : item \in set}

InitInsight ==
    /\ FileSystemInit
    /\ \E viral \in AtMostOne(ViralFields), ground \in AtMostOne(GroundbreakerFields),
          papers \in AtMostOne(PaperFields), visited \in AtMostOne(VisitedFields) :
        probe = [stage |-> "scratchpad",
                 doc |-> [viral_candidates |-> viral,
                          groundbreaker_candidates |-> ground,
                          arxiv_papers |-> papers,
                          urls_visited |-> visited]]

SpecInsight == InitInsight /\ [][NextLearn]_vars

----------------------------------------------------------------------------
(* The index row on its own: update_session_index applied to key findings of
   every length *)

RECURSIVE Filled(_, _)
Filled(c, n) == IF n = 0 THEN "" ELSE c \o Filled(c, n - 1)

\* findings of every length, of one character or of two with the change at the
\* places where the finding is cut
FindingInputs ==
    UNION {{Filled("a", k) \o Filled("b", n - k) :
               k \in {j \in {0, KeyFindingKeep, KeyFindingLimit} : j <= n}} :
           n \in 0..MaxFinding}

InitIndex ==
    /\ FileSystemInit
    /\ probe \in {[stage |-> "finding", key_finding |-> f] : f \in FindingInputs}

IndexFinding ==
    /\ probe.stage = "finding"
    /\ probe' = [stage |-> "indexed", key_finding |-> probe.key_finding,
                 index |-> update_session_index(Absent, NewSession("w1", <<"x">>, 0), 0,
                                                [used |-> 0, total |-> 0, skipped |-> 0],
                                                probe.key_finding, 0)]
    /\ UNCHANGED <<now, local, gsessions, gorder, index, memory, steps, trace>>

NextIndex == IndexFinding

SpecIndex == InitIndex /\ [][NextIndex]_vars

----------------------------------------------------------------------------
(* The key finding on its own: the key finding of archive_session for scratchpads
   with and without viral candidates and used URLs *)

CandidateInputs ==
    AtMostOne({[url |-> "https://x"], [name |-> "toolX", url |-> "https://x"]})
    \cup {<<[url |-> "https://x"], [name |-> "toolY", url |-> "https://y/p"]>>}

UsedInputs == SeqsUpTo(URLs, MaxVisited)

\* a scratchpad with urls_visited and any of the two other keys
InitFinding ==
    /\ FileSystemInit
    /\ \E keys \in SUBSET {"viral_candidates", "urls_used"},
          viral \in CandidateInputs, used \in UsedInputs :
        probe = [stage |-> "scratchpad",
                 doc |-> [k \in keys \cup {"urls_visited"} |->
                             CASE k = "viral_candidates" -> viral
                               [] k = "urls_used" -> used
                               [] OTHER -> <<>>]]

FindKey ==
    /\ probe.stage = "scratchpad"
    /\ probe' = [stage |-> "found", doc |-> probe.doc,
                 key_finding |-> KeyFinding(probe.doc, count_urls(probe.doc))]
    /\ UNCHANGED <<now, local, gsessions, gorder, index, memory, steps, trace>>

NextFinding == FindKey

SpecFinding == InitFinding /\ [][NextFinding]_vars

----------------------------------------------------------------------------
(* Invocations step by step: a log event writer by writer, so that the states
   between two writers, and the state an interrupted invocation leaves, are
   states of the model.  probe holds the invocation in progress; the other
   invocations run when none is in progress.  One workspace, whose documents can
   be left unparsable. *)

\* Fault: the tabular export is written first.
LogWriters_tabular_first == <<"tabular", "narrative", "structured">>

\* main() of log_url.py: "Log to all outputs"
LogWriters == <<"narrative", "structured", "tabular">>

Idle == probe = NoProbe

\* a log event that finds no file to write to changes nothing and is not counted
BeginLog(w) ==
    \E in \in LogInputs :
        LET entry == LogEntry(in.url, in.used, in.skipped, in.relevance, now)
        IN  /\ Idle
            /\ steps < MaxOps \/ log_url(S, w, entry).st = S
            /\ Parsed(ReadFile(local[w], SessionName))
            /\ probe' = [stage |-> "log", at |-> 1, ws |-> w,
                         session |-> ReadFile(local[w], SessionName).doc,
                         entry |-> entry, before |-> local]
            /\ UNCHANGED <<now, local, gsessions, gorder, index, memory, steps, trace>>

\* the next writer runs; an exception raised by the scratchpad writer ends the
\* invocation.  The invocation counts when it first changes the file system.
LogStep ==
    /\ probe.stage = "log"
    /\ probe.at <= Len(LogWriters)
    /\ LET writer == LogWriters[probe.at]
           r == log_to_scratchpad(local, probe.session, probe.entry)
       IN  /\ local' = CASE writer = "narrative" ->
                                log_to_markdown(local, probe.session, probe.entry)
                         [] writer = "structured" -> r.loc
                         [] writer = "tabular" ->
                                log_to_csv(local, probe.session, probe.entry)
           /\ probe' = IF writer = "structured" /\ r.raised THEN NoProbe
                       ELSE [probe EXCEPT !.at = @ + 1]
           /\ steps' = IF local = probe.before /\ local' # local THEN steps + 1 ELSE steps
    /\ UNCHANGED <<now, gsessions, gorder, index, memory, trace>>

LogReturn ==
    /\ probe.stage = "log"
    /\ probe.at = Len(LogWriters) + 1
    /\ probe' = NoProbe
    /\ UNCHANGED <<now, local, gsessions, gorder, index, memory, steps, trace>>

\* the process of the invocation in progress is killed
Interrupt ==
    /\ ~Idle
    /\ probe' = NoProbe
    /\ UNCHANGED <<now, local, gsessions, gorder, index, memory, steps, trace>>

NextSteps ==
    \/ Idle /\ Tick
    \/ Idle /\ InitSession("w1", "none")
    \/ Idle /\ ContinueSession("w1", "none")
    \/ Idle /\ Push("w1", "none")
    \/ Idle /\ Pull("w1", "none")
    \/ Idle /\ Archive("w1", "none")
    \/ Idle /\ Damage("w1")
    \/ BeginLog("w1")
    \/ LogStep
    \/ LogReturn
    \/ Interrupt

SpecSteps == Init /\ [][NextSteps]_vars

\* Fault: the local workspace is cleaned before it is mirrored.
ArchiveSteps_clean_first ==
    <<"memory", "report", "session", "clean", "mirror", "index", "breadcrumb">>

\* archive_session(): the writes of an archive, in the order of the code
ArchiveSteps ==
    <<"memory", "report", "session", "mirror", "index", "clean", "breadcrumb">>

Remove(dir, name) == [n \in DOMAIN dir \ {name} |-> dir[n]]

\* what an archive computes from the session document and the scratchpad it read
\* when it began
ArchivePlan(before, w, extract_learnings_flag, t) ==
    LET session0 == get_current_session(before.local[w]).doc
        scratchpad == parse_scratchpad(before.local, session0)
        url_stats == count_urls(scratchpad)
        duration == t - session0.started
        session == [session0 EXCEPT !.status = "archived",
                                    !.archived_at = t,
                                    !.duration_minutes = duration,
                                    !.stats.urls_visited = url_stats.total,
                                    !.stats.urls_used = url_stats.used]
    IN  [session0 |-> session0,
         session |-> session,
         learnings |-> IF extract_learnings_flag THEN extract_learnings(scratchpad)
                       ELSE <<>>,
         report |-> generate_archive_report(session, scratchpad, url_stats, duration, t),
         duration |-> duration,
         url_stats |-> url_stats,
         key_finding |-> KeyFinding(scratchpad, url_stats)]

\* the session document is read and the global session directory made
BeginArchive(w) ==
    \E extract \in BOOLEAN, keep_local \in BOOLEAN :
        LET sfile == get_current_session(local[w])
            id == sfile.doc.session_id
            gdir == Dir(gsessions, id)
        IN  /\ Idle
            /\ steps < MaxOps
            /\ sfile # Absent
            /\ steps' = steps + 1
            /\ gsessions' = PutDir(gsessions, id, gdir)
            /\ gorder' = Touched(gsessions, gorder, id, gdir)
            /\ probe' = [stage |-> "archive", at |-> 1, ws |-> w, id |-> id,
                         extract |-> extract, keep_local |-> keep_local,
                         before |-> S, copied |-> {}]
            /\ UNCHANGED <<now, local, index, memory, trace>>

\* the next write of the archive; the two loops over the local directory take its
\* entries one at a time, in any order
ArchiveStep ==
    /\ probe.stage = "archive"
    /\ probe.at <= Len(ArchiveSteps)
    /\ LET w == probe.ws
           id == probe.id
           step == ArchiveSteps[probe.at]
           plan == ArchivePlan(probe.before, w, probe.extract, now)
           forward == [probe EXCEPT !.at = @ + 1]
           todo == DOMAIN local[w] \ probe.copied
       IN  \/ /\ step = "memory"
              /\ memory' = update_learnings_memory(memory, plan.session0,
                                                   plan.learnings, now)
              /\ probe' = forward
              /\ UNCHANGED <<local, gsessions, gorder, index>>
           \/ /\ step = "report"
              /\ local' = [local EXCEPT ![w] = WriteFile(@, ArchiveName, plan.report)]
              /\ probe' = forward
              /\ UNCHANGED <<gsessions, gorder, index, memory>>
           \/ /\ step = "session"
              /\ local' = [local EXCEPT ![w] = WriteFile(@, SessionName,
                                                         JsonFile(plan.session))]
              /\ probe' = forward
              /\ UNCHANGED <<gsessions, gorder, index, memory>>
           \/ /\ step = "mirror"
              /\ todo = {}
              /\ probe' = [forward EXCEPT !.copied = {}]
              /\ UNCHANGED <<local, gsessions, gorder, index, memory>>
           \/ /\ step = "mirror"
              /\ \E name \in todo :
                    LET gdir == WriteFile(Dir(gsessions, id), name, local[w][name])
                    IN  /\ gsessions' = PutDir(gsessions, id, gdir)
                        /\ gorder' = Touched(gsessions, gorder, id, gdir)
                        /\ probe' = IF todo = {name}
                                    THEN [forward EXCEPT !.copied = {}]
                                    ELSE [probe EXCEPT !.copied = @ \cup {name}]
              /\ UNCHANGED <<local, index, memory>>
           \/ /\ step = "index"
              /\ index' = update_session_index(index, plan.session, plan.duration,
                                               plan.url_stats, plan.key_finding, now)
              /\ probe' = forward
              /\ UNCHANGED <<local, gsessions, gorder, memory>>
           \/ /\ step = "clean"
              /\ probe.keep_local \/ local[w] = EmptyDir
              /\ probe' = forward
              /\ UNCHANGED <<local, gsessions, gorder, index, memory>>
           \/ /\ step = "clean"
              /\ ~probe.keep_local
              /\ \E name \in DOMAIN local[w] :
                    /\ local' = [local EXCEPT ![w] = Remove(@, name)]
                    /\ probe' = IF DOMAIN local[w] = {name} THEN forward ELSE probe
              /\ UNCHANGED <<gsessions, gorder, index, memory>>
           \/ /\ step = "breadcrumb"
              /\ local' = IF probe.keep_local THEN local
                          ELSE [local EXCEPT ![w] = WriteFile(@, BreadcrumbName,
                                                              Breadcrumb(id))]
              /\ probe' = forward
              /\ UNCHANGED <<gsessions, gorder, index, memory>>
    /\ UNCHANGED <<now, steps, trace>>

ArchiveReturn ==
    /\ probe.stage = "archive"
    /\ probe.at = Len(ArchiveSteps) + 1
    /\ probe' = NoProbe
    /\ UNCHANGED <<now, local, gsessions, gorder, index, memory, steps, trace>>

\* the process of the archive in progress is killed; trace records it
InterruptArchive ==
    /\ probe.stage = "archive"
    /\ probe' = NoProbe
    /\ trace' = [op |-> "interrupt", ws |-> probe.ws, status |-> "none"]
    /\ UNCHANGED <<now, local, gsessions, gorder, index, memory, steps>>

\* no invocation in progress and none interrupted
Ready == Idle /\ trace = NoTrace

\* One workspace; an archive runs write by write and can be interrupted at any
\* point.  The behaviours end with the interrupted archive.
NextArchive ==
    \/ Ready /\ Tick
    \/ Ready /\ InitSession("w1", "none")
    \/ Ready /\ ContinueSession("w1", "none")
    \/ Ready /\ LogUrl("w1", "none", {in \in LogInputs : ~in.skipped})
    \/ Ready /\ BeginArchive("w1")
    \/ ArchiveStep
    \/ ArchiveReturn
    \/ InterruptArchive

SpecArchive == Init /\ [][NextArchive]_vars

----------------------------------------------------------------------------
(* Properties *)

Range(seq) == {seq[i] : i \in 1..Len(seq)}
VisitedUrls(doc) == {e.url : e \in Range(doc.urls_visited)}

\* every session directory of the two tiers
AllDirs == {local[w] : w \in WS} \cup {gsessions[id] : id \in DOMAIN gsessions}

\* the three representations of the session a workspace holds, at the paths the
\* session document names
Active(w) == Parsed(ReadFile(local[w], SessionName))
ActiveSession(w) == ReadFile(local[w], SessionName).doc
Narrative(w) == ReadPath(local, ActiveSession(w).paths.session_log)
Structured(w) == ReadPath(local, ActiveSession(w).paths.scratchpad)
Tabular(w) == ReadPath(local, ActiveSession(w).paths.sources)

NarrativeRows(w) == Rows(Narrative(w), "row")
StructuredRows(w) == IF Parsed(Structured(w)) THEN Len(Structured(w).doc.urls_visited) ELSE 0
TabularRows(w) == Rows(Tabular(w), "csvrow")

\* a log-url invocation that built its entry and ran to its end
LoggedOk == trace.op = "log" /\ trace.status = "ok"

\* C1 (as claimed): after a log event the scratchpad holds the entry's URL in
\* urls_used when the entry is used, in urls_skipped when it is skipped, in neither
\* when both flags are false, and never in both, also when the URL was logged
\* before with other flags.
C1_UrlClassifiedOnce ==
    (LoggedOk /\ Active(trace.ws) /\ Parsed(Structured(trace.ws))) =>
        LET doc == Structured(trace.ws).doc
            e == trace.entry
            inUsed == e.url \in Range(doc.urls_used)
            inSkipped == e.url \in Range(doc.urls_skipped)
        IN  /\ ~(inUsed /\ inSkipped)
            /\ (e.used /\ ~e.skipped) => (inUsed /\ ~inSkipped)
            /\ (e.skipped /\ ~e.used) => (inSkipped /\ ~inUsed)
            /\ (~e.used /\ ~e.skipped) => (~inUsed /\ ~inSkipped)

\* C2 (as claimed): every entry that log-url builds and hands to its writers has
\* used and skipped never both true.
C2_UsedSkippedExclusive ==
    (trace.op = "log" /\ trace.status # "fail") =>
        ~(trace.entry.used /\ trace.entry.skipped)

\* C3: in every scratchpad document of either tier, every URL of urls_used and of
\* urls_skipped is the url of an entry of urls_visited of the same document.
C3_ClassifiedWereVisited ==
    \A d \in AllDirs :
        LET f == ReadFile(d, ScratchpadName)
        IN  Parsed(f) =>
                (Range(f.doc.urls_used) \cup Range(f.doc.urls_skipped))
                    \subseteq VisitedUrls(f.doc)

\* a pushed scratchpad with a used URL, and a local one with a skipped URL
C3_Witness ==
    /\ \E id \in DOMAIN gsessions :
          LET f == ReadFile(gsessions[id], ScratchpadName)
          IN  Parsed(f) /\ f.doc.urls_used # <<>>
    /\ \E w \in WS :
          LET f == ReadFile(local[w], ScratchpadName)
          IN  Parsed(f) /\ f.doc.urls_skipped # <<>>

\* C4 (as claimed): after any sequence of init, log-url, push, pull and
\* continue-session the narrative table, urls_visited and the tabular export of
\* the active local session have the same number of rows.
C4_RepresentationsAgree ==
    \A w \in WS :
        Active(w) =>
            /\ NarrativeRows(w) = StructuredRows(w)
            /\ StructuredRows(w) = TabularRows(w)

\* C5 (as claimed): every load of a stored scratchpad document, by the log writer
\* and by the archive pipeline, yields every defined key, whatever subset of keys
\* is stored, and never fails.
C5_LoadYieldsEveryKey ==
    (probe.stage # "stored" /\ probe.stage # "none" /\ probe.file # Malformed) =>
        /\ probe.stage = "loaded"
        /\ DefinedKeys \subseteq DOMAIN probe.doc

\* C6: defaulting adds the absent keys alone: a present key keeps its value, an
\* unknown key is kept, a complete document comes back unchanged, and defaulting
\* twice equals defaulting once.
C6_DefaultingOnlyAdds ==
    (probe.stage = "loaded" /\ probe.by = "log") =>
        LET stored == probe.file.doc
            doc == probe.doc
        IN  /\ DOMAIN doc = DOMAIN stored \cup DOMAIN ScratchpadDefaults
            /\ \A k \in DOMAIN stored : doc[k] = stored[k]
            /\ \A k \in DOMAIN doc \ DOMAIN stored : doc[k] = ScratchpadDefaults[k]
            /\ (DOMAIN ScratchpadDefaults \subseteq DOMAIN stored) => doc = stored
            /\ ensure_scratchpad_keys(doc) = doc

\* a document with an unknown key, a present list and an absent list, defaulted twice
C6_Witness ==
    /\ probe.stage = "loaded"
    /\ probe.by = "log"
    /\ probe.times = MaxDefault
    /\ "x_future" \in DOMAIN probe.file.doc
    /\ "urls_visited" \in DOMAIN probe.file.doc
    /\ "urls_used" \notin DOMAIN probe.file.doc

\* C7 (as claimed): an operation that reads a malformed session or scratchpad
\* document ends with a reported result, never with a propagated error, and a log
\* event on a malformed scratchpad does not leave the narrative with a row the
\* tabular export has not.
C7_MalformedNeverPropagates ==
    /\ trace.op \in {"log", "push", "pull", "continue", "archive"} => trace.status # "error"
    /\ (trace.op = "log" /\ Active(trace.ws) /\ Structured(trace.ws) = Malformed) =>
          NarrativeRows(trace.ws) = TabularRows(trace.ws)

\* the session document without its sync-provenance fields
EraseProvenance(f) ==
    IF Parsed(f)
    THEN JsonFile([f.doc EXCEPT !.stats.last_sync = NoTime,
                                !.stats.sync_direction = "none",
                                !.stats.sync_env = "none"])
    ELSE f

SameButProvenance(f, g) == EraseProvenance(f) = EraseProvenance(g)

LaterTimes == {t \in Times : t >= now}

\* the local directory of w after a push now and a pull of the same id at t
RoundTrip(w, t) ==
    LET id == ActiveSession(w).session_id
    IN  pull_session(push_session(S, w, now).st, w, id, t).st.local[w]

\* C8 (as claimed): with an active local session, push then pull of the same id
\* leaves the local directory with the same files and the same contents as before
\* the push, but for the provenance fields of the session document, whatever the
\* global session directory held.
C8_RoundTripRestores ==
    \A w \in WS : Active(w) =>
        \A t \in LaterTimes :
            LET before == local[w]
                after == RoundTrip(w, t)
            IN  /\ DOMAIN after = DOMAIN before
                /\ \A n \in DOMAIN before \ {SessionName} : after[n] = before[n]
                /\ SameButProvenance(after[SessionName], before[SessionName])

\* C8 (amended): push then pull of the same id keeps every local file with its
\* content, but for the provenance fields of the session document, and adds a
\* copy of each file the global session directory held that the local directory
\* lacked.
C8_RoundTripKeepsAndGains ==
    \A w \in WS : Active(w) =>
        \A t \in LaterTimes :
            LET before == local[w]
                held == Dir(gsessions, ActiveSession(w).session_id)
                after == RoundTrip(w, t)
            IN  /\ DOMAIN after = DOMAIN before \cup DOMAIN held
                /\ \A n \in DOMAIN before \ {SessionName} : after[n] = before[n]
                /\ \A n \in DOMAIN held \ DOMAIN before : after[n] = held[n]
                /\ SameButProvenance(after[SessionName], before[SessionName])

\* a workspace that pulled the session it had pushed with a logged URL
C8_Witness ==
    \E w \in WS :
        /\ Active(w)
        /\ ActiveSession(w).stats.sync_direction = "pull"
        /\ StructuredRows(w) > 0
        /\ LET g == ReadFile(Dir(gsessions, ActiveSession(w).session_id), SessionName)
           IN  /\ Parsed(g)
               /\ g.doc.stats.sync_direction = "push"
               /\ ReadFile(Dir(gsessions, ActiveSession(w).session_id), ScratchpadName)
                    = ReadFile(local[w], ScratchpadName)

\* C9: a successful push leaves, in the global directory of the session's id, an
\* identical copy of every local file; the session document is the same in both
\* tiers, with sync_direction "push" and last_sync set.
C9_PushMirrorsLocal ==
    \A w \in WS :
        LET out == push_session(S, w, now)
        IN  out.status = "ok" =>
              LET ldir == out.st.local[w]
                  id == ActiveSession(w).session_id
                  gdir == Dir(out.st.gs, id)
                  doc == ReadFile(ldir, SessionName).doc
              IN  /\ id \in DOMAIN out.st.gs
                  /\ \A n \in DOMAIN ldir : n \in DOMAIN gdir /\ gdir[n] = ldir[n]
                  /\ \A n \in DOMAIN local[w] \ {SessionName} : ldir[n] = local[w][n]
                  /\ doc.stats.sync_direction = "push"
                  /\ doc.stats.last_sync = now
                  /\ doc.stats.last_sync # NoTime

\* a pushed session with logged URLs: the session document and the scratchpad are
\* the same in both tiers
C9_Witness ==
    \E w \in WS :
        /\ Active(w)
        /\ ActiveSession(w).stats.sync_direction = "push"
        /\ StructuredRows(w) > 0
        /\ LET gdir == Dir(gsessions, ActiveSession(w).session_id)
           IN  /\ ReadFile(gdir, SessionName) = ReadFile(local[w], SessionName)
               /\ ReadFile(gdir, ScratchpadName) = ReadFile(local[w], ScratchpadName)

\* the URLs a session directory has on record
LoggedState(dir) ==
    LET f == ReadFile(dir, ScratchpadName)
    IN  IF Parsed(f) THEN f.doc.urls_visited ELSE <<>>

\* the ids a pull can find, and no id at all
PullInputs == DOMAIN gsessions \cup {NoId}

\* what a pull of the directory gdir, with the outcome out, does to the global
\* tier and to the files it copies into the local directory ldir
PullCopies(gdir, ldir, out) ==
    /\ out.st.gs = gsessions
    /\ out.st.gorder = gorder
    /\ out.st.index = index
    /\ out.st.memory = memory
    /\ \A n \in DOMAIN gdir \ {SessionName} : n \in DOMAIN ldir /\ ldir[n] = gdir[n]
    /\ Exists(gdir, SessionName) =>
          LET f == ReadFile(ldir, SessionName)
          IN  /\ SameButProvenance(f, gdir[SessionName])
              /\ f.doc.stats.sync_direction = "pull"
              /\ f.doc.stats.last_sync = now

\* C10 (as claimed): a successful pull leaves the global tier unchanged and every
\* file of the pulled directory with an identical local copy, the session document
\* stamped "pull" with a new last_sync, so that the local logged state is the
\* global one afterwards.
C10_PullReplacesLocal ==
    \A w \in WS, id \in PullInputs :
        LET out == pull_session(S, w, id, now)
        IN  out.status = "ok" =>
              LET gdir == gsessions[PullTarget(S, id)]
                  ldir == out.st.local[w]
              IN  /\ PullCopies(gdir, ldir, out)
                  /\ LoggedState(ldir) = LoggedState(gdir)

\* C10 (amended): a successful pull leaves the global tier unchanged and every
\* file of the pulled directory with an identical local copy, the session document
\* stamped "pull" with a new last_sync; a local file is replaced when the pulled
\* directory holds a file of its name and kept as it is otherwise.
C10_PullOverlaysLocal ==
    \A w \in WS, id \in PullInputs :
        LET out == pull_session(S, w, id, now)
        IN  out.status = "ok" =>
              LET gdir == gsessions[PullTarget(S, id)]
                  ldir == out.st.local[w]
              IN  /\ PullCopies(gdir, ldir, out)
                  /\ DOMAIN ldir = DOMAIN local[w] \cup DOMAIN gdir
                  /\ \A n \in DOMAIN local[w] \ DOMAIN gdir : ldir[n] = local[w][n]

\* a workspace that pulled a session whose global directory holds no scratchpad
\* and kept the URLs it had logged
C10_Witness ==
    \E w \in WS :
        /\ Active(w)
        /\ ActiveSession(w).stats.sync_direction = "pull"
        /\ Parsed(ReadFile(local[w], ScratchpadName))
        /\ ReadFile(local[w], ScratchpadName).doc.urls_visited # <<>>
        /\ ActiveSession(w).session_id \in DOMAIN gsessions
        /\ ~Exists(gsessions[ActiveSession(w).session_id], ScratchpadName)

----------------------------------------------------------------------------
(* Absent state *)

\* an invocation that reports failure and leaves every file as it was
Refused(out) == out.status = "fail" /\ out.st = S

\* C11: archive and push in a workspace that holds no session document, pull of
\* an id that has no global directory, and pull without an id when no global
\* directory holds a session document, report failure and leave both tiers as
\* they were.
C11_AbsentStateRefused ==
    \A w \in WS :
        /\ ~Exists(local[w], SessionName) =>
              /\ Refused(push_session(S, w, now))
              /\ \A extract \in BOOLEAN, keep_local \in BOOLEAN :
                    Refused(archive_session(S, w, extract, keep_local, now))
        /\ \A id \in IdInputs \ DOMAIN gsessions : Refused(pull_session(S, w, id, now))
        /\ list_global_sessions(S, 1) = <<>> => Refused(pull_session(S, w, NoId, now))

\* a pull of an unknown id was refused while the global tier holds a session, in
\* a workspace that holds no session document
C11_Witness ==
    /\ trace.op = "pull"
    /\ trace.status = "fail"
    /\ gsessions # <<>>
    /\ ~Exists(local[trace.ws], SessionName)

----------------------------------------------------------------------------
(* Archive *)

\* the last invocation was an archive that succeeded
Archived == trace.op = "archive" /\ trace.status = "ok"
\* the session document it started from
ArchivedSession == ReadFile(trace.before.local[trace.ws], SessionName).doc

\* C12: a successful archive that does not keep the local workspace leaves the
\* local directory with one entry, the breadcrumb, which holds the id of the
\* archived session, whatever the directory held before.
C12_OnlyBreadcrumbLeft ==
    (Archived /\ ~trace.keep_local) =>
        /\ DOMAIN local[trace.ws] = {BreadcrumbName}
        /\ local[trace.ws][BreadcrumbName] = Breadcrumb(ArchivedSession.session_id)

\* a workspace that held the breadcrumb and the export of an earlier session was
\* archived and cleaned
C12_Witness ==
    /\ Archived
    /\ ~trace.keep_local
    /\ Exists(trace.before.local[trace.ws], BreadcrumbName)
    /\ trace.before.local[trace.ws][BreadcrumbName] # Breadcrumb(ArchivedSession.session_id)
    /\ DOMAIN local[trace.ws] = {BreadcrumbName}


\* the number of entries the scratchpad read by the last archive held under a key,
\* 0 when it had no such key or could not be read
LoggedCount(key) ==
    LET f == ReadPath(trace.before.local, ArchivedSession.paths.scratchpad)
    IN  IF Parsed(f) /\ key \in DOMAIN f.doc THEN Len(f.doc[key]) ELSE 0

\* the rows of the index file, none when the file does not exist
IndexRows(f) == IF f = Absent THEN <<>> ELSE Tail(f.lines)

\* C13: the index is append-only.  A step changes the index only when it is a
\* successful archive, and a successful archive appends exactly one row, with the
\* numbers of used and of visited URLs of the scratchpad, to the rows that were
\* there: they remain a prefix.
C13_IndexAppendOnly ==
    [][/\ index' # index => (Archived' /\ trace' # trace)
       /\ (Archived' /\ trace' # trace) =>
             /\ Len(IndexRows(index')) = Len(IndexRows(index)) + 1
             /\ SubSeq(IndexRows(index'), 1, Len(IndexRows(index))) = IndexRows(index)
             /\ LET row == index'.lines[Len(index'.lines)]
                IN  /\ row.tag = "indexrow"
                    /\ row.used = LoggedCount("urls_used")'
                    /\ row.total = LoggedCount("urls_visited")']_vars

\* a second archive added its row, with one URL used out of one visited, below the
\* row of the first
C13_Witness ==
    /\ Archived
    /\ Len(IndexRows(index)) = 2
    /\ index.lines[Len(index.lines)].used = 1
    /\ index.lines[Len(index.lines)].total = 1
    /\ IndexRows(trace.before.index) = <<index.lines[2]>>


\* C14: archiving again with the local workspace kept changes nothing but the
\* index.  Two archives in a row, taken at the same reading of the clock, leave
\* the file system one archive leaves, but for one more row in the index.
C14_RearchiveAddsOnlyIndexRow ==
    \A w \in WS : Active(w) =>
        \A extract \in BOOLEAN :
            LET one == archive_session(S, w, extract, TRUE, now)
                two == archive_session(one.st, w, extract, TRUE, now)
            IN  one.status = "ok" =>
                  /\ two.status = "ok"
                  /\ [two.st EXCEPT !.index = one.st.index] = one.st
                  /\ Len(IndexRows(two.st.index)) = Len(IndexRows(one.st.index)) + 1
                  /\ SubSeq(IndexRows(two.st.index), 1, Len(IndexRows(one.st.index)))
                        = IndexRows(one.st.index)


\* the number of entries a scratchpad file holds under a key
Entries(f, key) == IF Parsed(f) /\ key \in DOMAIN f.doc THEN Len(f.doc[key]) ELSE 0

\* C15: after a successful archive the session document of the global tier has
\* status "archived" and the URL counts of the scratchpad of the session, the
\* global directory holds an identical copy of every file of the local session,
\* the archive report among them, and a local workspace that was kept holds the
\* session document the global tier holds.
C15_ArchiveMirrorsSession ==
    \A w \in WS : Active(w) =>
        \A extract \in BOOLEAN, keep_local \in BOOLEAN :
            LET out == archive_session(S, w, extract, keep_local, now)
                global == Dir(out.st.gs, ActiveSession(w).session_id)
                doc == ReadFile(global, SessionName)
                scratchpad == ReadFile(local[w], ScratchpadName)
            IN  out.status = "ok" =>
                  /\ Parsed(doc)
                  /\ doc.doc.status = "archived"
                  /\ doc.doc.stats.urls_visited = Entries(scratchpad, "urls_visited")
                  /\ doc.doc.stats.urls_used = Entries(scratchpad, "urls_used")
                  /\ Exists(global, ArchiveName)
                  /\ \A n \in DOMAIN local[w] \ {SessionName, ArchiveName} :
                        ReadFile(global, n) = local[w][n]
                  /\ keep_local =>
                        \A n \in DOMAIN out.st.local[w] :
                            ReadFile(global, n) = out.st.local[w][n]


----------------------------------------------------------------------------
(* The session document *)

SessionDoc(dir) == ReadFile(dir, SessionName).doc

\* the last step was an invocation that ended in success
Invoked(ops) == now' = now /\ trace'.op \in ops /\ trace'.status = "ok"

\* b is the session document a with nothing changed but what continue-session and
\* the synchronisation stamp
Restamped(a, b) ==
    [a EXCEPT !.status = b.status, !.resumed_at = b.resumed_at,
              !.paths = b.paths, !.stats = b.stats] = b

\* C16: the session_id of a session never changes.  push and archive leave the
\* session_id of the local session document as it was and store the document
\* under that id; log-url leaves it as it was; pull and continue-session write
\* the document of a global directory to the local tier with its session_id; and
\* the session document of the global directory of an id carries that id.
C16_SessionIdStable ==
    [][LET w == trace'.ws
       IN  /\ Invoked({"log", "push", "archive"}) =>
                /\ Parsed(ReadFile(local[w], SessionName))
                /\ Parsed(ReadFile(local'[w], SessionName)) =>
                      SessionDoc(local'[w]).session_id = SessionDoc(local[w]).session_id
                /\ trace'.op # "log" =>
                      LET id == SessionDoc(local[w]).session_id
                      IN  /\ id \in DOMAIN gsessions'
                          /\ Parsed(ReadFile(gsessions'[id], SessionName))
           /\ Invoked({"pull", "continue"}) =>
                /\ Parsed(ReadFile(local'[w], SessionName))
                /\ \E id \in DOMAIN gsessions :
                      /\ Parsed(ReadFile(gsessions[id], SessionName))
                      /\ Restamped(SessionDoc(gsessions[id]), SessionDoc(local'[w]))
                      /\ SessionDoc(local'[w]).session_id = id
           /\ \A id \in DOMAIN gsessions' :
                Parsed(ReadFile(gsessions'[id], SessionName)) =>
                    SessionDoc(gsessions'[id]).session_id = id]_vars

\* a session was pushed after the clock had moved on since it was created, and
\* another session is in the global tier
C16_Witness ==
    /\ trace.op = "push"
    /\ trace.status = "ok"
    /\ now = 1
    /\ SessionDoc(local[trace.ws]).started = 0
    /\ Cardinality(DOMAIN gsessions) = 2


\* C17: a session_id is unique.  An init, whatever its topic and whatever the
\* clock reads, produces an id that no session of the global tier has, and leaves
\* the global directory of every earlier session as it was.
C17_InitIdIsNew ==
    \A w \in WS, topic \in Topics :
        LET out == init_session(S, w, topic, now)
        IN  /\ generate_session_id(topic, now) \notin DOMAIN gsessions
            /\ \A id \in DOMAIN gsessions : Dir(out.st.gs, id) = gsessions[id]


----------------------------------------------------------------------------
(* The life of a session *)

\* a directory holds the entry of a URL logged to a session: in the scratchpad of
\* the session, in a row of its narrative, or in a row of the tabular export of
\* its topic
HeldIn(dir, id, url) ==
    LET scratchpad == ReadFile(dir, ScratchpadName)
        narrative == ReadFile(dir, SessionLogName)
        tabular == ReadFile(dir, SourcesName(id.safe))
    IN  \/ /\ Parsed(scratchpad)
           /\ scratchpad.doc.session_id = id
           /\ url \in VisitedUrls(scratchpad.doc)
        \/ /\ Parsed(narrative)
           /\ narrative.lines[1].session_id = id
           /\ \E i \in 1..Len(narrative.lines) :
                 narrative.lines[i].tag = "row" /\ narrative.lines[i].url = url
        \/ /\ Parsed(tabular)
           /\ \E i \in 1..Len(tabular.lines) :
                 tabular.lines[i].tag = "csvrow" /\ tabular.lines[i].url = url

Held(id, url) == \E dir \in AllDirs : HeldIn(dir, id, url)

\* C18: a session is never deleted.  From one state to the next the session
\* document of every session of the global tier stays in the global tier, and a
\* URL entry logged to a session that either tier holds is still held by one of
\* them.
C18_SessionNeverDeleted ==
    [][/\ \A id \in DOMAIN gsessions :
             /\ id \in DOMAIN gsessions'
             /\ Exists(gsessions[id], SessionName) => Exists(gsessions'[id], SessionName)
       /\ \A id \in IdInputs, url \in URLs : Held(id, url) => Held(id, url)']_vars


Statuses == {"active", "resumed", "archived"}

\* C19: the status of every session document of either tier is active, resumed
\* or archived.  init writes active, continue-session resumed and archive
\* archived; log-url, push and pull leave the status of the session document as
\* it was.
C19_StatusFollowsLifecycle ==
    [][LET w == trace'.ws
           was == SessionDoc(local[w])
           is == SessionDoc(local'[w])
       IN  /\ \A dir \in AllDirs' :
                Parsed(ReadFile(dir, SessionName)) => SessionDoc(dir).status \in Statuses
           /\ Invoked({"init"}) =>
                /\ is.status = "active"
                /\ SessionDoc(gsessions'[is.session_id]).status = "active"
           /\ Invoked({"continue"}) => is.status = "resumed"
           /\ Invoked({"archive"}) =>
                /\ SessionDoc(gsessions'[was.session_id]).status = "archived"
                /\ Parsed(ReadFile(local'[w], SessionName)) => is.status = "archived"
           /\ Invoked({"log", "push"}) => is.status = was.status
           /\ Invoked({"push"}) => SessionDoc(gsessions'[was.session_id]).status = was.status
           /\ Invoked({"pull"}) =>
                \E id \in DOMAIN gsessions :
                    /\ Parsed(ReadFile(gsessions[id], SessionName))
                    /\ Restamped(SessionDoc(gsessions[id]), is)
                    /\ is.status = SessionDoc(gsessions[id]).status]_vars

\* an archived session was resumed: the local document is resumed and the global
\* one still archived
C19_Witness ==
    /\ trace.op = "continue"
    /\ trace.status = "ok"
    /\ SessionDoc(local[trace.ws]).status = "resumed"
    /\ SessionDoc(gsessions[SessionDoc(local[trace.ws]).session_id]).status = "archived"


----------------------------------------------------------------------------
(* Learnings *)

\* what a Learning says of the item it was derived from
Derived(learning, type, name, url) ==
    learning.type = type /\ learning.name = name /\ learning.url = url

\* the entries of urls_visited that yield a resource Learning: relevance 3 or
\* more, and a URL that no candidate and no earlier such entry has
Yielding(doc) ==
    LET candidates == doc.viral_candidates \o doc.groundbreaker_candidates
                      \o doc.arxiv_papers
        visited == doc.urls_visited
    IN  {i \in 1..Len(visited) :
            /\ visited[i].relevance >= 3
            /\ \A c \in 1..Len(candidates) :
                  "url" \in DOMAIN candidates[c] => candidates[c].url # visited[i].url
            /\ \A j \in 1..(i - 1) :
                  visited[j].relevance >= 3 => visited[j].url # visited[i].url}

\* C20: extract_learnings returns one tool Learning for each viral candidate, one
\* innovation Learning for each groundbreaker candidate and one paper Learning
\* for each arxiv paper, in this order, and then one resource Learning for each
\* visited entry of relevance 3 or more whose URL no earlier Learning has, in the
\* order of the entries: of the entries with one URL the first alone yields one.
C20_LearningsInOrder ==
    probe.stage = "learned" =>
        LET doc == probe.doc
            learnings == probe.learnings
            viral == doc.viral_candidates
            ground == doc.groundbreaker_candidates
            papers == doc.arxiv_papers
            visited == doc.urls_visited
            before == Len(viral) + Len(ground) + Len(papers)
            yielding == Yielding(doc)
        IN  /\ Len(learnings) = before + Cardinality(yielding)
            /\ \A i \in 1..Len(viral) :
                  Derived(learnings[i], "tool", viral[i].name, viral[i].url)
            /\ \A i \in 1..Len(ground) :
                  Derived(learnings[Len(viral) + i], "innovation",
                          ground[i].name, ground[i].url)
            /\ \A i \in 1..Len(papers) :
                  Derived(learnings[Len(viral) + Len(ground) + i], "paper",
                          papers[i].title, "")
            /\ \A i \in yielding :
                  Derived(learnings[before + Cardinality({j \in yielding : j <= i})],
                          "resource", visited[i].name, visited[i].url)

\* learnings were extracted from a scratchpad with a tool at https://x and three
\* visited entries of relevance 3, one at https://x and two at https://y/p: the
\* tool and the first entry at https://y/p alone yield a Learning
C20_Witness ==
    /\ probe.stage = "learned"
    /\ Len(probe.doc.viral_candidates) = 1
    /\ probe.doc.groundbreaker_candidates = <<>>
    /\ probe.doc.arxiv_papers = <<>>
    /\ Len(probe.doc.urls_visited) = 3
    /\ \A i \in 1..3 : probe.doc.urls_visited[i].relevance = 3
    /\ probe.doc.urls_visited[1].url = "https://y/p"
    /\ probe.doc.urls_visited[2].url = "https://x"
    /\ probe.doc.urls_visited[3].url = "https://y/p"
    /\ probe.doc.urls_visited[3].name # probe.doc.urls_visited[1].name
    /\ Len(probe.learnings) = 2
    /\ probe.learnings[2].name = probe.doc.urls_visited[1].name


\* the first of the fields that the item has with a value that is not empty, else
\* the generic phrase
FirstNonEmpty(item, fields, generic) ==
    LET filled == {i \in 1..Len(fields) :
                      fields[i] \in DOMAIN item /\ item[fields[i]] # ""}
    IN  IF filled = {} THEN generic
        ELSE item[fields[CHOOSE i \in filled : \A j \in filled : i <= j]]

\* C21: the insight of a Learning is the first present and non-empty value of the
\* ordered fields of its item, else the generic phrase of its type, with the
\* prefix of its type; a field that is present and empty is passed over.  The one
\* viral candidate toolX at https://x with why "fast" yields the one Learning
\* tool, toolX, https://x, "High-adoption: fast".
C21_InsightFirstNonEmpty ==
    probe.stage = "learned" =>
        LET doc == probe.doc
            learnings == probe.learnings
            viral == doc.viral_candidates
            ground == doc.groundbreaker_candidates
            papers == doc.arxiv_papers
            visited == doc.urls_visited
        IN  /\ Len(learnings) = Len(viral) + Len(ground) + Len(papers) + Len(visited)
            /\ \A i \in 1..Len(viral) :
                  learnings[i].insight =
                      "High-adoption: "
                      \o FirstNonEmpty(viral[i], <<"why", "notes">>, "well-maintained")
            /\ \A i \in 1..Len(ground) :
                  learnings[Len(viral) + i].insight =
                      "Novel: "
                      \o FirstNonEmpty(ground[i], <<"novel", "why", "notes">>, "emerging")
            /\ \A i \in 1..Len(papers) :
                  learnings[Len(viral) + Len(ground) + i].insight =
                      FirstNonEmpty(papers[i], <<"insight", "notes">>, "Research finding")
            /\ \A i \in 1..Len(visited) :
                  learnings[Len(viral) + Len(ground) + Len(papers) + i].insight =
                      FirstNonEmpty(visited[i], <<"notes">>, "High relevance resource")
            /\ (/\ viral = <<[name |-> "toolX", url |-> "https://x", why |-> "fast"]>>
                /\ ground = <<>> /\ papers = <<>> /\ visited = <<>>) =>
                  learnings = <<Learning("tool", "toolX", "https://x",
                                         "High-adoption: fast")>>


----------------------------------------------------------------------------
(* The index row *)

\* C22: the key finding of an index row has at most 40 characters.  A finding of
\* more than 40 characters is written as its first 37 characters and "...", 40 in
\* all; a finding of 40 characters or fewer is written as it is.
C22_KeyFindingTruncated ==
    probe.stage = "indexed" =>
        LET finding == probe.key_finding
            written == probe.index.lines[Len(probe.index.lines)].key_finding
        IN  /\ Len(written) <= 40
            /\ Len(finding) <= 40 => written = finding
            /\ Len(finding) > 40 =>
                  /\ Len(written) = 40
                  /\ SubSeq(written, 1, 37) = SubSeq(finding, 1, 37)
                  /\ SubSeq(written, 38, 40) = "..."

\* a finding of 50 characters was written to an index row as 40
C22_Witness ==
    /\ probe.stage = "indexed"
    /\ Len(probe.key_finding) = 50
    /\ Len(probe.index.lines[Len(probe.index.lines)].key_finding) = 40


----------------------------------------------------------------------------
(* The order of the writers *)

\* the log event in progress has written to the file at a path
Written(p) == ReadPath(local, p) # ReadPath(probe.before, p)

\* C23: a log event writes the narrative, then the structured state, then the
\* tabular export.  At every point of a log event, and so in the state it leaves
\* when it is interrupted, the tabular export holds the event only if the
\* structured state holds it, and the structured state only if the narrative does.
C23_WritersInOrder ==
    probe.stage = "log" =>
        /\ Written(probe.session.paths.sources) => Written(probe.session.paths.scratchpad)
        /\ Written(probe.session.paths.scratchpad) =>
              Written(probe.session.paths.session_log)

\* a log event has written the narrative and the scratchpad and not yet the
\* tabular export
C23_Witness ==
    /\ probe.stage = "log"
    /\ probe.at = 3
    /\ Written(probe.session.paths.session_log)
    /\ Written(probe.session.paths.scratchpad)
    /\ ~Written(probe.session.paths.sources)


\* C24: the narrative writer inserts one row for the event right after the
\* separator of the URL table and changes no other line, so the rows stand
\* directly under the table head, the newest first, and the checkpoint table is
\* as it was; it writes nothing when there is no narrative document.
C24_RowInsertedUnderHead ==
    (probe.stage = "log" /\ probe.at >= 2) =>
        LET p == probe.session.paths.session_log
            was == ReadPath(probe.before, p)
            is == ReadPath(local, p)
        IN  IF was = Absent THEN is = Absent
            ELSE \E i \in 2..Len(was.lines) :
                    /\ was.lines[i - 1].tag = "urlhead"
                    /\ was.lines[i].tag = "sep"
                    /\ Len(is.lines) = Len(was.lines) + 1
                    /\ \A k \in 1..i : is.lines[k] = was.lines[k]
                    /\ is.lines[i + 1].tag = "row"
                    /\ is.lines[i + 1].url = probe.entry.url
                    /\ is.lines[i + 1].mark = UsedMark(probe.entry)
                    /\ \A k \in (i + 1)..Len(was.lines) : is.lines[k + 1] = was.lines[k]
                    /\ \A k \in 1..Len(is.lines) :
                          is.lines[k].tag = "row" =>
                              k > i /\ \A j \in (i + 1)..k : is.lines[j].tag = "row"

\* the row of a second event, for another URL, was inserted above the row of the
\* first
C24_Witness ==
    /\ probe.stage = "log"
    /\ probe.at >= 2
    /\ LET is == ReadPath(local, probe.session.paths.session_log)
       IN  /\ is # Absent
           /\ \E i \in 1..(Len(is.lines) - 1) :
                 /\ is.lines[i].tag = "row"
                 /\ is.lines[i + 1].tag = "row"
                 /\ is.lines[i].url = probe.entry.url
                 /\ is.lines[i + 1].url # probe.entry.url

----------------------------------------------------------------------------
(* The order of an archive *)

\* every entry of the local directory has its copy in the global session directory
Mirrored(ldir, gdir) == \A n \in DOMAIN ldir : ReadFile(gdir, n) = ldir[n]

\* C25: an archive writes in a fixed order.  When a file is copied to the global
\* session directory, the local session document is already marked archived and the
\* report is already in the local directory; when the index row is appended, the
\* mirror is complete; a local file is deleted only after both, and its copy is in
\* the global session directory.  At every point of an archive, and so in the
\* state an interrupt leaves, every file the local directory has lost is in the
\* global session directory.
C25_ArchiveInOrder ==
    [][probe.stage = "archive" =>
         LET w == probe.ws
             ldir == local[w]
             gdir == Dir(gsessions, probe.id)
             lost == DOMAIN ldir \ DOMAIN local'[w]
         IN  /\ gsessions' # gsessions =>
                    /\ SessionDoc(ldir).status = "archived"
                    /\ SessionDoc(ldir).archived_at = now
                    /\ Exists(ldir, ArchiveName)
                    /\ ReadFile(ldir, ArchiveName).lines[1].archived = now
             /\ index' # index => Mirrored(ldir, gdir)
             /\ lost # {} =>
                    /\ Mirrored(ldir, gdir)
                    /\ Rows(index, "indexrow") = Rows(probe.before.index, "indexrow") + 1
             /\ \A n \in DOMAIN probe.before.local[w] \ DOMAIN local'[w] :
                    Exists(Dir(gsessions', probe.id), n)]_vars

\* an archive has deleted the scratchpad and has local files left to delete
C25_Witness ==
    /\ probe.stage = "archive"
    /\ Exists(probe.before.local[probe.ws], ScratchpadName)
    /\ ~Exists(local[probe.ws], ScratchpadName)
    /\ Exists(local[probe.ws], SessionName)
    /\ VisitedUrls(ReadFile(gsessions[probe.id], ScratchpadName).doc) # {}

----------------------------------------------------------------------------
(* The scratchpad under an archive *)

\* C26: an archive only reads the scratchpad.  After a successful archive the
\* scratchpad of the global session directory is the local scratchpad as it was
\* before the archive, with keep_local the local scratchpad is as it was, and no
\* Learning derived from it is stored in it.
C26_ArchiveReadsScratchpad ==
    trace.op = "archive" /\ trace.status = "ok" =>
        LET w == trace.ws
            ldir == trace.before.local[w]
            id == SessionDoc(ldir).session_id
            f == ReadFile(ldir, ScratchpadName)
            g == ReadFile(Dir(gsessions, id), ScratchpadName)
        IN  Exists(ldir, ScratchpadName) =>
                /\ g = f
                /\ trace.keep_local => ReadFile(local[w], ScratchpadName) = f
                /\ Parsed(f) => DOMAIN g.doc = DOMAIN f.doc

\* an archive with extraction and keep_local of a session whose scratchpad yields a
\* Learning and differed from the global copy
C26_Witness ==
    /\ trace.op = "archive"
    /\ trace.status = "ok"
    /\ trace.extract
    /\ trace.keep_local
    /\ LET ldir == trace.before.local[trace.ws]
           f == ReadFile(ldir, ScratchpadName)
           id == SessionDoc(ldir).session_id
       IN  /\ Parsed(f)
           /\ extract_learnings(f.doc) # <<>>
           /\ id \in DOMAIN trace.before.gs
           /\ ReadFile(trace.before.gs[id], ScratchpadName) # f
           /\ ReadFile(local[trace.ws], ScratchpadName) = f


----------------------------------------------------------------------------
(* The memory document *)

\* the memory document after one dated section with the Learnings is appended to it
WithSection(mem, session, learnings, t) ==
    TextFile(Append(IF mem = Absent THEN <<MemoryHeader>> ELSE mem.lines,
                    [tag |-> "section", date |-> t \div SecondsPerDay,
                     topic |-> session.topic, session_id |-> session.session_id,
                     learnings |-> learnings]))

\* the Learnings an archive derives from the state it began in
ArchiveLearnings(before, w) ==
    extract_learnings(parse_scratchpad(before.local, SessionDoc(before.local[w])))

\* the last step was a successful archive with learning extraction
Extracted == Invoked({"archive"}) /\ trace'.extract

\* C27 as stated: the memory document changes only in an archive with learning
\* extraction, and every successful archive with learning extraction appends one
\* dated section with the derived Learnings to it, under the header when the
\* document is new, and leaves the lines it had.
C27_MemoryAtEveryExtraction ==
    [][/\ memory' # memory => Extracted
       /\ Extracted =>
            memory' = WithSection(memory, SessionDoc(local[trace'.ws]),
                                  ArchiveLearnings(S, trace'.ws), now)]_vars

\* C27, amended: the memory document changes only in an archive with learning
\* extraction.  A successful archive with learning extraction that derives at
\* least one Learning appends one dated section with the derived Learnings to it,
\* under the header when the document is new, and leaves the lines it had; one
\* that derives no Learning leaves the document as it was, absent when it was
\* absent.
C27_MemoryAtExtraction ==
    [][/\ memory' # memory => Extracted
       /\ Extracted =>
            LET learnings == ArchiveLearnings(S, trace'.ws)
            IN  memory' = IF learnings = <<>> THEN memory
                          ELSE WithSection(memory, SessionDoc(local[trace'.ws]),
                                           learnings, now)]_vars

\* the memory document holds the sections of two archives
C27_Witness ==
    /\ trace.op = "archive"
    /\ trace.status = "ok"
    /\ trace.extract
    /\ memory # Absent
    /\ trace.before.memory # Absent
    /\ Len(memory.lines) = Len(trace.before.memory.lines) + 1


----------------------------------------------------------------------------
(* The key finding *)

\* C28: the key finding is the name of the first viral candidate when it has one,
\* else "<used> URLs used" when urls_used is not empty, else the placeholder; a
\* first viral candidate without a name and a urls_used that is not empty give
\* "<used> URLs used".
C28_KeyFindingFallsBack ==
    probe.stage = "found" =>
        LET viral == Get(probe.doc, "viral_candidates", <<>>)
            used == Get(probe.doc, "urls_used", <<>>)
        IN  probe.key_finding =
                IF viral # <<>> /\ "name" \in DOMAIN viral[1] THEN viral[1].name
                ELSE IF used # <<>> THEN ToString(Len(used)) \o " URLs used"
                ELSE "See report"


----------------------------------------------------------------------------
(* The visited URLs *)

IsPrefix(s, t) == Len(s) <= Len(t) /\ SubSeq(t, 1, Len(s)) = s

\* C29: urls_visited of the local scratchpad of a session only grows at its end.
\* A log-url, push, pull, continue-session or archive that finds the scratchpad of
\* a session and leaves the scratchpad of that session leaves the urls_visited it
\* found as a prefix of the one it leaves, and a log event adds one entry.
C29_VisitedAppendOnly ==
    [][Invoked({"log", "push", "pull", "continue", "archive"}) =>
         LET f == ReadFile(local[trace'.ws], ScratchpadName)
             g == ReadFile(local'[trace'.ws], ScratchpadName)
         IN  Parsed(f) /\ Parsed(g) /\ f.doc.session_id = g.doc.session_id =>
                /\ IsPrefix(f.doc.urls_visited, g.doc.urls_visited)
                /\ trace'.op = "log" =>
                       Len(g.doc.urls_visited) = Len(f.doc.urls_visited) + 1]_vars


----------------------------------------------------------------------------
(* The workspace of an operation *)

\* C30: an operation touches the local tier of the workspace it runs in, and the
\* global tier, and nothing else.  In every state, a log event or an archive run
\* in a workspace leaves the files of the other workspaces as they are, and the
\* archive counts the URLs of the scratchpad of its own workspace; so also when
\* the session of the workspace was created in another one and brought in by
\* continue-session or pull.
C30_OperationsStayInWorkspace ==
    \A w \in WS :
        Parsed(ReadFile(local[w], SessionName)) =>
            \A v \in WS \ {w} :
                /\ \A in \in LogInputs :
                       log_url(S, w, LogEntry(in.url, in.used, in.skipped,
                                              in.relevance, now)).st.local[v] = local[v]
                /\ \A extract \in BOOLEAN, keep_local \in BOOLEAN :
                       LET st == archive_session(S, w, extract, keep_local, now).st
                       IN  /\ st.local[v] = local[v]
                           /\ st.index.lines[Len(st.index.lines)].total =
                                  count_urls(ParseScratchpadFile(
                                      ReadFile(local[w], ScratchpadName))).total


----------------------------------------------------------------------------
(* Resume *)

\* the file system after the step
After == [local |-> local', gs |-> gsessions', gorder |-> gorder',
          index |-> index', memory |-> memory']

\* the state st with the resumed_at of the session document of w set to t
ResumedAt(st, w, t) ==
    [st EXCEPT !.local[w] =
        WriteFile(@, SessionName, JsonFile([SessionDoc(@) EXCEPT !.resumed_at = t]))]

\* C31: resume is idempotent.  A successful continue-session leaves the global tier
\* as it was, leaves in the local tier the files of the global session directory
\* over those it had, and the session document of the global session directory
\* with the status resumed; run again at once or later, it succeeds and leaves the
\* two tiers as the first run left them, apart from resumed_at.
C31_ResumeIdempotent ==
    [][Invoked({"continue"}) =>
         LET w == trace'.ws
             id == SessionDoc(local'[w]).session_id
             gdir == Dir(gsessions, id)
         IN  /\ <<gsessions', gorder', index', memory'>> =
                    <<gsessions, gorder, index, memory>>
             /\ DOMAIN local'[w] = DOMAIN local[w] \cup DOMAIN gdir
             /\ \A n \in DOMAIN local'[w] \ {SessionName} :
                    local'[w][n] = IF n \in DOMAIN gdir THEN gdir[n] ELSE local[w][n]
             /\ SessionDoc(local'[w]) = [SessionDoc(gdir) EXCEPT !.status = "resumed",
                                                                 !.resumed_at = now,
                                                                 !.paths.local = w]
             /\ \A t \in Times :
                    t >= now =>
                        LET twice == load_session(After, w, id, t)
                        IN  /\ twice.status = "ok"
                            /\ ResumedAt(twice.st, w, now) = After]_vars

\* continue-session has resumed an archived session at a later time, in a local
\* tier that holds a file the global session directory lacks
C31_Witness ==
    /\ trace.op = "continue"
    /\ trace.status = "ok"
    /\ now > 0
    /\ SessionDoc(local[trace.ws]).status = "resumed"
    /\ SessionDoc(local[trace.ws]).resumed_at = now
    /\ SessionDoc(local[trace.ws]).archived_at # NoTime
    /\ Exists(local[trace.ws], BreadcrumbName)
    /\ ~Exists(gsessions[SessionDoc(local[trace.ws]).session_id], BreadcrumbName)

----------------------------------------------------------------------------
(* After the archive *)

\* in the file system st, every log-url, push and archive run in w reports that
\* there is no active session and leaves st as it is
NoSession(st, w) ==
    /\ push_session(st, w, now) = Outcome(st, "fail")
    /\ \A in \in AllLogInputs :
           log_url(st, w, LogEntry(in.url, in.used, in.skipped, in.relevance, now))
               = Outcome(st, "fail")
    /\ \A extract \in BOOLEAN, keep_local \in BOOLEAN :
           archive_session(st, w, extract, keep_local, now) = Outcome(st, "fail")

\* C32: after a successful archive with keep_local=false the local tier holds no
\* session.  Every log-url, push and archive then reports that there is no active
\* session and changes neither tier, and this stays so after each of them: until
\* an init, continue-session or pull runs, the archived session gets no log event
\* and no index row.
C32_NoSessionAfterArchive ==
    [][/\ (Invoked({"archive"}) /\ ~trace'.keep_local) => NoSession(After, trace'.ws)
       /\ (now' = now /\ trace'.op \in {"log", "push", "archive"}
              /\ NoSession(S, trace'.ws)) =>
            /\ trace'.status = "fail"
            /\ After = S
            /\ NoSession(After, trace'.ws)]_vars

\* a log event was refused in a workspace that an archive had cleaned
C32_Witness ==
    /\ trace.op = "log"
    /\ trace.status = "fail"
    /\ DOMAIN local[trace.ws] = {BreadcrumbName}
    /\ Rows(index, "indexrow") > 0
    /\ local[trace.ws][BreadcrumbName].session_id \in DOMAIN gsessions
    /\ VisitedUrls(ReadFile(gsessions[local[trace.ws][BreadcrumbName].session_id],
                            ScratchpadName).doc) # {}


====
